---- MODULE Spec2Model ----
(***************************************************************************)
(* The TREEEX mock authentication servers.                                 *)
(*                                                                         *)
(* Two dependency-free servers (server.js, the file src/unnamed/part_001,  *)
(* and src/mock-auth-server-standalone.js) keep a collection of user      *)
(* records in memory and rewrite a JSON snapshot on disk at every signup.  *)
(* The Express server (src/mock-auth-server.js) keeps three maps in        *)
(* memory and tracks the tokens it issues.                                 *)
(***************************************************************************)
EXTENDS Integers, Sequences, FiniteSets, TLC

VARIABLES
    variant,        \* which server runs: "server", "standalone" or "express"
    db,             \* the module-level `db` object, { users: [...] }
    disk,           \* the snapshot file DB_FILE
    uuidCount,      \* how many identifiers crypto.randomUUID() has produced
    lastResp,       \* the response this process wrote last, with its request
    signupLog,      \* every 200 answer of signup so far, oldest first
    users,          \* Express: the Map email -> user object
    tokens,         \* Express: the Map access_token -> { userId, expiresAt }
    refreshTokens,  \* Express: the Map refresh_token -> { userId, expiresAt }
    pending         \* the requests whose handler awaits parseBody, oldest first

vars == <<variant, db, disk, uuidCount, lastResp, signupLog, users, tokens, refreshTokens,
          pending>>

express == <<users, tokens, refreshTokens>>

(***************************************************************************)
(* Bounds of the model.                                                    *)
(***************************************************************************)
MaxUuid == 8
MaxClock == 1
MaxExpressUuid == 6

(***************************************************************************)
(* JSON values. A value carries its JavaScript type, so that values of     *)
(* different types are different and never confused: a string is           *)
(* <<"string", s>>, a number <<"number", n>>, an array <<"array", seq>>.   *)
(* An object is a function from its keys to values; a key it does not have *)
(* reads as undefined.                                                     *)
(***************************************************************************)
Undefined == <<"undefined">>
JNull == <<"null">>
JTrue == <<"boolean", "true">>
JStr(s) == <<"string", s>>
JNum(n) == <<"number", n>>
JArr(s) == <<"array", s>>
JObj(o) == <<"object", o>>

EmptyObject == << >>

\* new Map(), map.set(k, v) and map.delete(k)
NewMap == << >>
MapSet(m, k, v) == [x \in DOMAIN m \cup {k} |-> IF x = k THEN v ELSE m[x]]
MapDelete(m, k) == [x \in DOMAIN m \ {k} |-> m[x]]

Get(obj, key) == IF key \in DOMAIN obj THEN obj[key] ELSE Undefined

IsString(v) == v[1] = "string"

\* JavaScript truthiness of the values the model uses.
Truthy(v) ==
    CASE v[1] = "undefined" -> FALSE
      [] v[1] = "null"      -> FALSE
      [] v[1] = "string"    -> v[2] # ""
      [] v[1] = "number"    -> v[2] # 0
      [] v[1] = "boolean"   -> v[2] = "true"
      [] OTHER              -> TRUE

Falsy(v) == ~Truthy(v)

\* a || b
OrElse(a, b) == IF Truthy(a) THEN a ELSE b

Range(s) == {s[i] : i \in DOMAIN s}

(***************************************************************************)
(* Environment values: random identifiers and time stamps.                 *)
(***************************************************************************)

\* The n-th identifier crypto.randomUUID() returns. The generator is random
\* over 122 bits, so every call is taken to return a value not seen before,
\* across restarts too.
randomUUID(n) == JStr("uuid-" \o ToString(n))

\* new Date().toISOString() at time t
toISOString(t) == JStr("T" \o ToString(t))

ExpiresInSeconds == 3600

\* A generateTokens that numbers its tokens by the size of the collection.
generateTokensCounting(n, t) ==
    [access_token  |-> JStr("mock_access_token_" \o randomUUID(Len(db.users) + 1)[2]),
     refresh_token |-> JStr("mock_refresh_token_" \o randomUUID(Len(db.users) + 2)[2]),
     token_type    |-> JStr("bearer")]

\* generateTokens() called when n identifiers were produced and Date.now()
\* reads t seconds. server.js adds expires_at, the standalone server does not.
generateTokens(n, t) ==
    LET pair == [access_token  |-> JStr("mock_access_token_" \o randomUUID(n + 1)[2]),
                 refresh_token |-> JStr("mock_refresh_token_" \o randomUUID(n + 2)[2]),
                 token_type    |-> JStr("bearer")]
    IN  IF variant = "server"
        THEN pair @@ [expires_at |-> JNum(t + ExpiresInSeconds)]
        ELSE pair

(***************************************************************************)
(* The snapshot file. Its text is modelled as the members JSON.stringify   *)
(* writes, in order: an object is the sequence of its <<key, value>>       *)
(* members, and a member whose value is undefined is left out.             *)
(***************************************************************************)
KeyOrder ==
    <<"user_id", "name", "email", "created_at", "is_active", "email_verified",
      "last_login_at">>

StringifyObject(obj) ==
    LET IsMember(k) == k \in DOMAIN obj /\ obj[k] # Undefined
        keys == SelectSeq(KeyOrder, IsMember)
    IN  [i \in 1..Len(keys) |-> <<keys[i], obj[keys[i]]>>]

ParseObject(members) ==
    LET keys == {members[i][1] : i \in DOMAIN members}
        Last(k) == CHOOSE i \in DOMAIN members :
                       /\ members[i][1] = k
                       /\ \A j \in DOMAIN members : members[j][1] = k => j <= i
    IN  [k \in keys |-> members[Last(k)][2]]

\* JSON.stringify(db, null, 2) for db = { users: [...] }
JSONstringify(d) ==
    << <<"users", [i \in 1..Len(d.users) |-> StringifyObject(d.users[i])]>> >>

\* JSON.parse of a text JSONstringify wrote
JSONparse(text) ==
    LET top == ParseObject(text)
    IN  IF "users" \in DOMAIN top
        THEN [top EXCEPT !.users = [i \in 1..Len(top.users) |-> ParseObject(top.users[i])]]
        ELSE top

NoFile == [exists |-> FALSE, text |-> << >>]

EmptyDB == [users |-> << >>]

\* saveDB(): the file after writeFileSync(DB_FILE, JSON.stringify(db))
saveDB(d) == [exists |-> TRUE, text |-> JSONstringify(d)]

\* The text of a file whose write stopped part way: JSON.parse throws on it.
TruncatedText == << <<"<truncated>", << >>>> >>

TruncatedFile == [exists |-> TRUE, text |-> TruncatedText]

\* The text `null`: JSON.parse returns null for it. NullDB is the module's
\* db when it holds that value, which has no property `users`.
NullText == << <<"<null>", << >>>> >>

NullFile == [exists |-> TRUE, text |-> NullText]

NullDB == [value |-> JNull]

\* A loadDB that starts from an empty collection whatever the file holds.
loadDBForgetting(f) == [db |-> EmptyDB, disk |-> saveDB(EmptyDB)]

\* A loadDB that reads the records of the file last to first.
loadDBReversed(f) ==
    IF f.exists
    THEN LET parsed == JSONparse(f.text)
             n      == Len(parsed.users)
         IN  [db   |-> [parsed EXCEPT !.users = [i \in 1..n |-> parsed.users[n + 1 - i]]],
              disk |-> f]
    ELSE [db |-> EmptyDB, disk |-> saveDB(EmptyDB)]

\* loadDB() run on the module's initial db = { users: [] } with the file f:
\* the db and the file it leaves.
loadDB(f) ==
    IF f.exists
    THEN IF f.text = TruncatedText
         \* JSON.parse throws before db is assigned; the catch logs the error
         THEN [db |-> EmptyDB, disk |-> f]
         ELSE IF f.text = NullText
         \* db = JSON.parse(data) assigns null, `!db.users` throws a
         \* TypeError, the catch logs it: db stays null
         THEN [db |-> NullDB, disk |-> f]
         ELSE LET parsed == JSONparse(f.text)
              IN  [db   |-> IF "users" \in DOMAIN parsed THEN parsed
                            ELSE ("users" :> << >>) @@ parsed,
                   disk |-> f]
    ELSE [db |-> EmptyDB, disk |-> saveDB(EmptyDB)]

(***************************************************************************)
(* Requests. A url is kept as its path and its search part ("" or "?...")  *)
(* so that the two ways the servers read it can be told apart. A header    *)
(* value is kept as its first seven characters and the rest; an absent     *)
(* header is the empty sequence. The body is the text the client sent.     *)
(***************************************************************************)
NoHeader == << >>
Bearer(token) == <<"Bearer ", token>>

EmptyText == [kind |-> "empty"]
MalformedText == [kind |-> "malformed"]
JsonText(obj) == [kind |-> "json", value |-> obj]

\* The object { email, password, name } without the members that are undefined
Credentials(email, password, name) ==
    LET all == [email |-> email, password |-> password, name |-> name]
    IN  [k \in {x \in DOMAIN all : all[x] # Undefined} |-> all[k]]

Request(method, path, search, auth, body) ==
    [method |-> method, url |-> [path |-> path, search |-> search],
     authorization |-> auth, body |-> body]

\* new URL(req.url, baseURL).pathname
pathname(url) == url.path

\* The path a server routes on: server.js takes the pathname of the parsed
\* url, the standalone server compares the raw url, query string included.
RoutedPath(req) ==
    IF variant = "server" THEN pathname(req.url)
    ELSE IF req.url.search = "" THEN req.url.path
    ELSE "<no route>"

\* authHeader.startsWith('Bearer ')
startsWithBearer(h) == Len(h) > 0 /\ h[1] = "Bearer "

\* parseBody(req): server.js rejects a text that does not parse, the
\* standalone server resolves to {} for it.
parseBody(text) ==
    CASE text.kind = "empty"     -> [ok |-> TRUE, value |-> EmptyObject]
      [] text.kind = "json"      -> [ok |-> TRUE, value |-> text.value]
      [] text.kind = "malformed" ->
            IF variant = "server" THEN [ok |-> FALSE, value |-> EmptyObject]
            ELSE [ok |-> TRUE, value |-> EmptyObject]

(***************************************************************************)
(* Responses.                                                              *)
(***************************************************************************)
CorsHeaders ==
    ("Access-Control-Allow-Origin" :> "*") @@
    ("Access-Control-Allow-Methods" :> "GET, POST, OPTIONS") @@
    ("Access-Control-Allow-Headers" :> "Content-Type, Authorization")

\* A sendJSON that sets the cross-origin headers on a success only.
sendJSONCorsOnSuccess(statusCode, data) ==
    [status  |-> statusCode,
     headers |-> IF statusCode < 400
                 THEN ("Content-Type" :> "application/json") @@ CorsHeaders
                 ELSE ("Content-Type" :> "application/json"),
     body    |-> [k \in {x \in DOMAIN data : data[x] # Undefined} |-> data[k]]]

\* res.end(JSON.stringify(data)): a member that is undefined is not written
sendJSON(statusCode, data) ==
    [status  |-> statusCode,
     headers |-> ("Content-Type" :> "application/json") @@ CorsHeaders,
     body    |-> [k \in {x \in DOMAIN data : data[x] # Undefined} |-> data[k]]]

\* res.writeHead(204, cors); res.end()
sendPreflight == [status |-> 204, headers |-> CorsHeaders, body |-> EmptyObject]

\* What a handler run leaves: the response, the db and the file (both
\* unchanged unless the handler is a successful signup), and the number of
\* identifiers it drew.
Outcome(resp, d, f, drawn) == [resp |-> resp, db |-> d, disk |-> f, uuids |-> drawn]

Reply(resp, drawn) == Outcome(resp, db, disk, drawn)

(***************************************************************************)
(* The handlers of handleRequest. Each is given the parsed body (or the    *)
(* request) and the time `now` its Date reads return, and reads db, disk  *)
(* and uuidCount.                                                          *)
(***************************************************************************)

\* email.split('@')[0] on the strings the model sends
LocalPart(s) ==
    CASE s = "a@x.io" -> "a"
      [] s = "A@x.io" -> "A"
      [] s = "b@x.io" -> "b"
      [] OTHER        -> s

ValidationError(field) ==
    [loc  |-> JArr(<<JStr("body"), JStr(field)>>),
     msg  |-> JStr("field required"),
     type |-> JStr("value_error.missing")]

InternalServerError == sendJSON(500, [detail |-> JStr("Internal server error")])

\* POST /api/auth/signup in server.js
signupServer(body, now) ==
    LET email    == Get(body, "email")
        password == Get(body, "password")
        name     == Get(body, "name")
    IN  IF email = Undefined \/ password = Undefined
        THEN Reply(sendJSON(422, [detail |-> JArr(<<ValidationError("field")>>)]), 0)
        ELSE IF Falsy(email) \/ Falsy(password)
        THEN Reply(sendJSON(400, [detail |-> JStr("Email and password are required")]), 0)
        ELSE IF Falsy(name) /\ ~IsString(email)
        \* email.split is not a function: the TypeError is thrown after
        \* randomUUID() ran and before the push; the outer catch answers.
        THEN Reply(InternalServerError, 1)
        ELSE IF db = NullDB
        \* db.users.push: db is null, the TypeError is thrown after
        \* randomUUID() ran; the outer catch answers.
        THEN Reply(InternalServerError, 1)
        ELSE LET newUser == [user_id        |-> randomUUID(uuidCount + 1),
                             name           |-> OrElse(name, JStr(LocalPart(email[2]))),
                             email          |-> email,
                             created_at     |-> toISOString(now),
                             is_active      |-> JTrue,
                             email_verified |-> JTrue,
                             last_login_at  |-> JNull]
                 pushed  == [db EXCEPT !.users = Append(@, newUser)]
                 pair    == generateTokens(uuidCount + 1, now)
             IN  Outcome(sendJSON(200, [user_id       |-> newUser.user_id,
                                        name          |-> newUser.name,
                                        email         |-> newUser.email,
                                        access_token  |-> pair.access_token,
                                        refresh_token |-> pair.refresh_token]),
                         pushed, saveDB(pushed), 3)

\* POST /api/auth/signup in the standalone server
signupStandalone(body, now) ==
    LET email    == Get(body, "email")
        password == Get(body, "password")
        name     == Get(body, "name")
    IN  IF Falsy(email) \/ Falsy(password)
        THEN Reply(sendJSON(422, [detail |-> JArr(<<ValidationError("email")>>)]), 0)
        ELSE IF db = NullDB
        \* db.users.push on null throws after randomUUID() ran
        THEN Reply(InternalServerError, 1)
        ELSE LET newUser == [user_id |-> randomUUID(uuidCount + 1),
                             name    |-> OrElse(name, JStr("New User")),
                             email   |-> email]
                 pushed  == [db EXCEPT !.users = Append(@, newUser)]
                 pair    == generateTokens(uuidCount + 1, now)
             IN  Outcome(sendJSON(200, pair @@ newUser), pushed, saveDB(pushed), 3)

\* A signup that pushes the record and does not call saveDB().
signupWithoutSave(body, now) ==
    LET out == IF variant = "server" THEN signupServer(body, now)
               ELSE signupStandalone(body, now)
    IN  [out EXCEPT !.disk = disk]

\* A signup that puts the new record in front of the others.
signupPrepending(body, now) ==
    LET out == IF variant = "server" THEN signupServer(body, now)
               ELSE signupStandalone(body, now)
        unshifted == [db EXCEPT !.users = <<out.db.users[Len(out.db.users)]>> \o @]
    IN  IF out.db = db THEN out
        ELSE [out EXCEPT !.db = unshifted, !.disk = saveDB(unshifted)]

signup(body, now) ==
    IF variant = "server" THEN signupServer(body, now) ELSE signupStandalone(body, now)

\* db.users.find(u => u.email === email): the index of the first match, 0 if none
find(list, email) ==
    LET hits == {i \in DOMAIN list : Get(list[i], "email") = email}
    IN  IF hits = {} THEN 0 ELSE CHOOSE i \in hits : \A j \in hits : i <= j

\* A signin that keeps the ghost user it fabricates.
signinPersistingGhost(body, now) ==
    LET email    == Get(body, "email")
        password == Get(body, "password")
    IN  IF Falsy(email) \/ Falsy(password)
        THEN Reply(sendJSON(422, [detail |-> JStr("Email and password required")]), 0)
        ELSE LET found  == find(db.users, email)
                 drawn  == IF found = 0 THEN 1 ELSE 0
                 user   == IF found = 0
                           THEN [user_id |-> randomUUID(uuidCount + 1), email |-> email]
                           ELSE db.users[found]
                 pushed == IF found = 0 THEN [db EXCEPT !.users = Append(@, user)] ELSE db
                 pair == generateTokens(uuidCount + drawn, now)
             IN  Outcome(sendJSON(200, [user_id       |-> Get(user, "user_id"),
                                        access_token  |-> pair.access_token,
                                        refresh_token |-> pair.refresh_token,
                                        token_type    |-> JStr("bearer")]),
                         pushed, saveDB(pushed), drawn + 2)

\* A signin that rejects a known user whose password is not "pw1".
signinVerifyingPassword(body, now) ==
    LET email    == Get(body, "email")
        password == Get(body, "password")
    IN  IF Falsy(email) \/ Falsy(password)
        THEN Reply(sendJSON(422, [detail |-> JStr("Email and password required")]), 0)
        ELSE LET found  == find(db.users, email)
                 drawn  == IF found = 0 THEN 1 ELSE 0
                 user   == IF found = 0 THEN [user_id |-> randomUUID(uuidCount + 1)]
                           ELSE db.users[found]
                 pair == generateTokens(uuidCount + drawn, now)
             IN  IF found # 0 /\ password # JStr("pw1")
                 THEN Reply(sendJSON(401, [detail |-> JStr("Invalid email or password")]), 0)
                 ELSE Reply(sendJSON(200, [user_id       |-> Get(user, "user_id"),
                                           access_token  |-> pair.access_token,
                                           refresh_token |-> pair.refresh_token,
                                           token_type    |-> JStr("bearer")]),
                            drawn + 2)

\* A signin that answers with the whole record it found.
signinSpreadingUser(body, now) ==
    LET email    == Get(body, "email")
        password == Get(body, "password")
    IN  IF Falsy(email) \/ Falsy(password)
        THEN Reply(sendJSON(422, [detail |-> JStr("Email and password required")]), 0)
        ELSE LET found == find(db.users, email)
                 drawn == IF found = 0 THEN 1 ELSE 0
                 user  == IF found = 0 THEN [user_id |-> randomUUID(uuidCount + 1)]
                          ELSE db.users[found]
                 pair  == generateTokens(uuidCount + drawn, now)
             IN  Reply(sendJSON(200, pair @@ user), drawn + 2)

\* POST /api/auth/signin
signin(body, now) ==
    LET email    == Get(body, "email")
        password == Get(body, "password")
    IN  IF variant = "server" /\ (email = Undefined \/ password = Undefined)
        THEN Reply(sendJSON(422, [detail |-> JStr("Email and password are required")]), 0)
        ELSE IF variant = "server" /\ (Falsy(email) \/ Falsy(password))
        THEN Reply(sendJSON(400, [detail |-> JStr("Email and password are required")]), 0)
        ELSE IF variant = "standalone" /\ (Falsy(email) \/ Falsy(password))
        THEN Reply(sendJSON(422, [detail |-> JStr("Email and password required")]), 0)
        ELSE IF db = NullDB
        \* db.users.find on null throws; the outer catch answers
        THEN Reply(InternalServerError, 0)
        ELSE LET found  == find(db.users, email)
                 \* a ghost user draws an identifier, a found one does not
                 drawn  == IF found = 0 THEN 1 ELSE 0
                 user   == IF found = 0 THEN [user_id |-> randomUUID(uuidCount + 1)]
                           ELSE db.users[found]
                 pair == generateTokens(uuidCount + drawn, now)
             IN  Reply(sendJSON(200, [user_id       |-> Get(user, "user_id"),
                                      access_token  |-> pair.access_token,
                                      refresh_token |-> pair.refresh_token,
                                      token_type    |-> JStr("bearer")]),
                       drawn + 2)

\* A refresh that rejects a token the server never issued.
refreshVerifying(body, now) ==
    IF Falsy(Get(body, "refresh_token"))
    THEN Reply(sendJSON(422, [detail |-> JStr("Refresh token required")]), 0)
    ELSE IF Get(body, "refresh_token") = JStr("any_random_string_works")
    THEN Reply(sendJSON(401, [detail |-> JStr("Invalid or expired refresh token")]), 0)
    ELSE Reply(sendJSON(200, generateTokens(uuidCount, now)), 2)

\* POST /api/auth/refresh
refresh(body, now) ==
    LET refresh_token == Get(body, "refresh_token")
    IN  IF Falsy(refresh_token)
        THEN Reply(sendJSON(422, [detail |-> JStr("Refresh token required")]), 0)
        ELSE Reply(sendJSON(200, generateTokens(uuidCount, now)), 2)

\* A /me that accepts only a token it could have issued.
meVerifyingToken(authHeader, now) ==
    IF ~startsWithBearer(authHeader) \/ authHeader[2] = "totally_fake_token_12345"
    THEN Reply(sendJSON(401, [detail |-> JStr("Not authenticated")]), 0)
    ELSE Reply(sendJSON(200, IF db.users = << >>
                             THEN [user_id |-> randomUUID(uuidCount + 1),
                                   name    |-> JStr("Mock Admin"),
                                   email   |-> JStr("admin@treeex.io")]
                             ELSE db.users[1]),
               IF db.users = << >> THEN 1 ELSE 0)

\* A /me that returns the latest record instead of the first.
meLatestRecord(authHeader, now) ==
    IF ~startsWithBearer(authHeader)
    THEN Reply(sendJSON(401, [detail |-> JStr("Not authenticated")]), 0)
    ELSE Reply(sendJSON(200, IF db.users = << >>
                             THEN [user_id |-> randomUUID(uuidCount + 1),
                                   name    |-> JStr("Mock Admin"),
                                   email   |-> JStr("admin@treeex.io")]
                             ELSE db.users[Len(db.users)]),
               IF db.users = << >> THEN 1 ELSE 0)

\* GET /api/auth/me
me(authHeader, now) ==
    IF ~startsWithBearer(authHeader)
    THEN Reply(sendJSON(401, [detail |-> JStr("Not authenticated")]), 0)
    ELSE IF db = NullDB
    \* db.users[0] on null throws; the outer catch answers
    THEN Reply(InternalServerError, 0)
    ELSE LET empty == db.users = << >>
             drawn == IF empty THEN 1 ELSE 0
             user  == IF ~empty THEN db.users[1]
                      ELSE IF variant = "server"
                      THEN [user_id        |-> randomUUID(uuidCount + 1),
                            name           |-> JStr("Mock Admin"),
                            email          |-> JStr("admin@treeex.io"),
                            created_at     |-> toISOString(now),
                            is_active      |-> JTrue,
                            email_verified |-> JTrue,
                            last_login_at  |-> toISOString(now)]
                      ELSE [user_id |-> randomUUID(uuidCount + 1),
                            name    |-> JStr("Mock Admin"),
                            email   |-> JStr("admin@treeex.io")]
         IN  IF variant = "server"
             THEN Reply(sendJSON(200,
                     [user_id        |-> Get(user, "user_id"),
                      email          |-> Get(user, "email"),
                      name           |-> Get(user, "name"),
                      email_verified |-> OrElse(Get(user, "email_verified"), JTrue),
                      is_active      |-> OrElse(Get(user, "is_active"), JTrue),
                      created_at     |-> Get(user, "created_at"),
                      last_login_at  |-> Get(user, "last_login_at")]), drawn)
             ELSE Reply(sendJSON(200, user), drawn)

(***************************************************************************)
(* handleRequest: the chain of route tests, in the order of the code.      *)
(***************************************************************************)
Operation(req) ==
    LET method == req.method
        path   == RoutedPath(req)
    IN  IF method = "OPTIONS" THEN "preflight"
        ELSE IF method = "GET"  /\ path = "/health"          THEN "health"
        ELSE IF method = "POST" /\ path = "/api/auth/signup"  THEN "signup"
        ELSE IF method = "POST" /\ path = "/api/auth/signin"  THEN "signin"
        ELSE IF method = "POST" /\ path = "/api/auth/refresh" THEN "refresh"
        ELSE IF method = "GET"  /\ path = "/api/auth/me"      THEN "me"
        ELSE "notfound"

\* let body; try { body = await parseBody(req) } catch (e) { 400 }; then the handler
WithBody(req, now, handler(_, _)) ==
    LET parsed == parseBody(req.body)
    IN  IF ~parsed.ok
        THEN Reply(sendJSON(400, [detail |-> JStr("Invalid JSON")]), 0)
        ELSE handler(parsed.value, now)

\* A handler that reads the body before it answers 404.
handleRequestReadingBody(req, now) ==
    LET op == Operation(req)
    IN  CASE op = "preflight" -> Reply(sendPreflight, 0)
          [] op = "health"    -> Reply(sendJSON(200, [status |-> JStr("running")]), 0)
          [] op = "signup"    -> WithBody(req, now, signup)
          [] op = "signin"    -> WithBody(req, now, signin)
          [] op = "refresh"   -> WithBody(req, now, refresh)
          [] op = "me"        -> me(req.authorization, now)
          [] op = "notfound"  ->
                IF ~parseBody(req.body).ok
                THEN Reply(sendJSON(400, [detail |-> JStr("Invalid JSON")]), 0)
                ELSE Reply(sendJSON(404, [detail |-> JStr("Not found")]), 0)

\* A handler that tests the signup route before it tests for OPTIONS, and
\* tests that route by its path alone.
handleRequestRoutingPreflight(req, now) ==
    LET op == Operation(req)
    IN  IF RoutedPath(req) = "/api/auth/signup" /\ req.method \in {"POST", "OPTIONS"}
        THEN WithBody(req, now, signup)
        ELSE CASE op = "preflight" -> Reply(sendPreflight, 0)
               [] op = "health"    -> Reply(sendJSON(200, [status |-> JStr("running")]), 0)
               [] op = "signin"    -> WithBody(req, now, signin)
               [] op = "refresh"   -> WithBody(req, now, refresh)
               [] op = "me"        -> me(req.authorization, now)
               [] OTHER            -> Reply(sendJSON(404, [detail |-> JStr("Not found")]), 0)

handleRequest(req, now) ==
    LET op == Operation(req)
    IN  CASE op = "preflight" -> Reply(sendPreflight, 0)
          [] op = "health"    -> Reply(sendJSON(200, [status |-> JStr("running")]), 0)
          [] op = "signup"    -> WithBody(req, now, signup)
          [] op = "signin"    -> WithBody(req, now, signin)
          [] op = "refresh"   -> WithBody(req, now, refresh)
          [] op = "me"        -> me(req.authorization, now)
          [] op = "notfound"  -> Reply(sendJSON(404, [detail |-> JStr("Not found")]), 0)

(***************************************************************************)
(* The requests the clients of the model send.                             *)
(***************************************************************************)
EmailA == JStr("a@x.io")
EmailB == JStr("b@x.io")
Password1 == JStr("pw1")
Password2 == JStr("pw2")

\* bodies that lack a field or hold an empty one
RejectedCredentials ==
    {Credentials(Undefined, Password1, Undefined),
     Credentials(EmailA, Undefined, Undefined),
     Credentials(JStr(""), Password1, Undefined),
     Credentials(EmailA, JStr(""), Undefined)}

SignupTexts ==
    {JsonText(Credentials(EmailA, Password1, Undefined)),
     JsonText(Credentials(EmailB, Password1, JStr("Alice"))),
     JsonText(Credentials(JNum(42), Password1, Undefined))}
    \cup {JsonText(c) : c \in RejectedCredentials}
    \cup {MalformedText}

SigninTexts ==
    {JsonText(Credentials(EmailA, p, Undefined)) : p \in {Password1, Password2}}
    \cup {JsonText(Credentials(EmailB, Password1, Undefined))}
    \cup {JsonText(c) : c \in RejectedCredentials}
    \cup {EmptyText, MalformedText}

\* the tokens of the last response, if it issued any
IssuedAccessTokens ==
    IF "access_token" \in DOMAIN lastResp.body THEN {lastResp.body.access_token} ELSE {}

IssuedRefreshTokens ==
    IF "refresh_token" \in DOMAIN lastResp.body THEN {lastResp.body.refresh_token} ELSE {}

\* the refresh token the last request submitted, if it was a refresh
SubmittedRefreshTokens ==
    IF lastResp.op = "refresh" /\ lastResp.req.body.kind = "json"
    THEN {lastResp.req.body.value.refresh_token}
    ELSE {}

RefreshTexts ==
    {JsonText([refresh_token |-> t]) :
        t \in {JStr(""), JStr("any_random_string_works")}
              \cup IssuedRefreshTokens \cup SubmittedRefreshTokens}
    \cup {EmptyText, MalformedText}

AuthHeaders ==
    {NoHeader, <<"Basic abc">>, Bearer("totally_fake_token_12345")}
    \cup {Bearer(t[2]) : t \in IssuedAccessTokens}

Paths ==
    {"/health", "/api/auth/signup", "/api/auth/signin", "/api/auth/refresh",
     "/api/auth/me", "/unknown/endpoint"}

SignupRequests ==
    {Request("POST", "/api/auth/signup", "", NoHeader, b) : b \in SignupTexts}

SigninRequests ==
    {Request("POST", "/api/auth/signin", "", NoHeader, b) : b \in SigninTexts}

RefreshRequests ==
    {Request("POST", "/api/auth/refresh", "", NoHeader, b) : b \in RefreshTexts}

MeRequests ==
    {Request("GET", "/api/auth/me", "", h, EmptyText) : h \in AuthHeaders}

HealthRequests ==
    {Request("GET", "/health", "", NoHeader, EmptyText)}

\* the five operations again, each with a query string
QueryRequests ==
    {Request("POST", p, "?ref=google", NoHeader,
             JsonText(Credentials(EmailA, Password1, Undefined))) :
        p \in {"/api/auth/signup", "/api/auth/signin"}}
    \cup {Request("POST", "/api/auth/refresh", "?ref=google", NoHeader,
                  JsonText([refresh_token |-> JStr("any_random_string_works")])),
          Request("GET", "/api/auth/me", "?ref=google",
                  Bearer("totally_fake_token_12345"), EmptyText),
          Request("GET", "/health", "?ref=google", NoHeader, EmptyText)}

PreflightRequests ==
    {Request("OPTIONS", p, "", NoHeader, EmptyText) :
        p \in {"/api/auth/signup", "/unknown/endpoint"}}
    \cup {Request("OPTIONS", "/api/auth/signup", "", NoHeader,
                  JsonText(Credentials(EmailA, Password1, Undefined)))}

\* a path no route has, and known paths under the other method
OtherRequests ==
    {Request("GET", p, "", NoHeader, EmptyText) :
        p \in {"/unknown/endpoint", "/api/auth/signup"}}
    \cup {Request("POST", "/api/auth/me", "", Bearer("totally_fake_token_12345"),
                  EmptyText),
          Request("POST", "/unknown/endpoint", "", NoHeader, MalformedText)}

Requests ==
    SignupRequests \cup SigninRequests \cup RefreshRequests \cup MeRequests
    \cup HealthRequests \cup QueryRequests \cup PreflightRequests \cup OtherRequests

(***************************************************************************)
(* The state machine of a dependency-free server.                          *)
(***************************************************************************)
NoRequest == Request("", "", "", NoHeader, EmptyText)

NoResponse ==
    [req |-> NoRequest, op |-> "none", status |-> 0, headers |-> << >>,
     body |-> EmptyObject]

\* The module runs loadDB() once, with no snapshot file, before it listens.
Init ==
    /\ variant \in {"server", "standalone"}
    /\ db = loadDB(NoFile).db
    /\ disk = loadDB(NoFile).disk
    /\ uuidCount = 0
    /\ lastResp = NoResponse
    /\ signupLog = << >>
    /\ users = NewMap
    /\ tokens = NewMap
    /\ refreshTokens = NewMap
    /\ pending = << >>

\* The values Date.now() may return, in seconds. The wall clock is not
\* monotonic, so any of them may be read at any call. Only server.js reads
\* it, in the four handlers that issue tokens or build a record.
Times(req) ==
    IF variant = "server" /\ Operation(req) \in {"signup", "signin", "refresh", "me"}
    THEN 0..MaxClock
    ELSE {0}

\* One request handled from its arrival to its response.
Serve(req) ==
    \E now \in Times(req) :
    \E out \in {handleRequest(req, now)} :
        /\ uuidCount + out.uuids <= MaxUuid
        /\ db' = out.db
        /\ disk' = out.disk
        /\ uuidCount' = uuidCount + out.uuids
        /\ lastResp' = [req |-> req, op |-> Operation(req)] @@ out.resp
        /\ signupLog' =
              IF Operation(req) = "signup" /\ out.resp.status = 200
              THEN Append(signupLog, [email   |-> out.resp.body.email,
                                      user_id |-> out.resp.body.user_id,
                                      name    |-> out.resp.body.name,
                                      live    |-> TRUE])
              ELSE signupLog
        /\ UNCHANGED <<variant, express, pending>>

Signup ==
    \E req \in SignupRequests \cup QueryRequests :
        Operation(req) = "signup" /\ Serve(req)

Signin ==
    \E req \in SigninRequests \cup QueryRequests :
        Operation(req) = "signin" /\ Serve(req)

Refresh ==
    \E req \in RefreshRequests \cup QueryRequests :
        Operation(req) = "refresh" /\ Serve(req)

Me ==
    \E req \in MeRequests \cup QueryRequests :
        Operation(req) = "me" /\ Serve(req)

Health ==
    \E req \in HealthRequests \cup QueryRequests :
        Operation(req) = "health" /\ Serve(req)

Preflight ==
    \E req \in PreflightRequests :
        Operation(req) = "preflight" /\ Serve(req)

NotFound ==
    \E req \in OtherRequests \cup QueryRequests :
        Operation(req) = "notfound" /\ Serve(req)

\* The process stops and starts again: the module's db is { users: [] }
\* anew and loadDB() reads the snapshot file. The new process has written no
\* response, and the signups answered so far belong to an earlier process.
Restart ==
    /\ db' = loadDB(disk).db
    /\ disk' = loadDB(disk).disk
    /\ lastResp' = NoResponse
    /\ signupLog' = [i \in DOMAIN signupLog |-> [signupLog[i] EXCEPT !.live = FALSE]]
    /\ UNCHANGED <<variant, uuidCount, express, pending>>

Next ==
    \/ Signup
    \/ Signin
    \/ Refresh
    \/ Me
    \/ Health
    \/ Preflight
    \/ NotFound
    \/ Restart

Spec == Init /\ [][Next]_vars

(***************************************************************************)
(* The Express server, src/mock-auth-server.js. Its state is three Maps,   *)
(* lost when the process stops. Time is counted in seconds (the source     *)
(* counts milliseconds, whose 30 days do not fit the checker's integers).  *)
(***************************************************************************)
AccessTokenSeconds == 3600
RefreshTokenSeconds == 2592000

\* email.toLowerCase(), on the strings the requests carry
toLowerCase(s) == IF s = "A@x.io" THEN "a@x.io" ELSE s

\* /^[^\s@]+@[^\s@]+\.[^\s@]+$/.test(email), on the values the requests
\* carry: a number is tested as its decimal text, which has no "@"
isValidEmail(email) == IsString(email) /\ email[2] \in {"a@x.io", "A@x.io", "b@x.io"}

validatePassword(password) ==
    IF Falsy(password)
    THEN [valid |-> FALSE, message |-> JStr("Password is required")]
    ELSE IF IsString(password) /\ Len(password[2]) < 8
    THEN [valid |-> FALSE, message |-> JStr("Password must be at least 8 characters long")]
    ELSE [valid |-> TRUE, message |-> Undefined]

\* res.status(code).json(data), behind cors()
json(statusCode, data) ==
    [status  |-> statusCode,
     headers |-> ("Content-Type" :> "application/json; charset=utf-8") @@
                 ("Access-Control-Allow-Origin" :> "*"),
     body    |-> [k \in {x \in DOMAIN data : data[x] # Undefined} |-> data[k]]]

ExpressOutcome(resp, u, t, r, drawn) ==
    [resp |-> resp, users |-> u, tokens |-> t, refreshTokens |-> r, uuids |-> drawn]

ExpressReply(resp) == ExpressOutcome(resp, users, tokens, refreshTokens, 0)

FieldError(field, msg, type) ==
    [loc |-> JArr(<<JStr("body"), JStr(field)>>), msg |-> msg, type |-> JStr(type)]

\* the 422 body of signup and signin: one entry per field that is falsy
MissingFields(email, password) ==
    JArr((IF Falsy(email)
          THEN <<FieldError("email", JStr("field required"), "value_error.missing")>>
          ELSE << >>)
         \o (IF Falsy(password)
             THEN <<FieldError("password", JStr("field required"), "value_error.missing")>>
             ELSE << >>))

InvalidEmailFormat ==
    json(422, [detail |-> JArr(<<FieldError("email", JStr("invalid email format"),
                                            "value_error.email")>>)])

\* generateTokens(userId) of the Express server, called when n identifiers
\* were produced and the clock reads t, on the maps t0 and r0
expressGenerateTokens(userId, n, t, t0, r0) ==
    LET accessToken  == "mock_access_" \o randomUUID(n + 1)[2]
        refreshToken == "mock_refresh_" \o randomUUID(n + 2)[2]
    IN  [tokens        |-> MapSet(t0, accessToken,
                                  [userId |-> userId, expiresAt |-> t + AccessTokenSeconds]),
         refreshTokens |-> MapSet(r0, refreshToken,
                                  [userId |-> userId, expiresAt |-> t + RefreshTokenSeconds]),
         pair          |-> [access_token  |-> JStr(accessToken),
                            refresh_token |-> JStr(refreshToken),
                            token_type    |-> JStr("bearer"),
                            expires_in    |-> JNum(3600)]]

\* A verifyAccessToken for which a token has expired at expiresAt already.
verifyAccessTokenEarly(authHeader, t) ==
    IF ~startsWithBearer(authHeader)
    THEN [valid |-> FALSE, error |-> JStr("Missing or invalid authorization header"),
          status |-> 401, userId |-> Undefined, tokens |-> tokens]
    ELSE IF authHeader[2] \notin DOMAIN tokens
    THEN [valid |-> FALSE, error |-> JStr("Invalid or expired access token"),
          status |-> 401, userId |-> Undefined, tokens |-> tokens]
    ELSE IF tokens[authHeader[2]].expiresAt <= t
    THEN [valid |-> FALSE, error |-> JStr("Access token has expired"),
          status |-> 401, userId |-> Undefined,
          tokens |-> MapDelete(tokens, authHeader[2])]
    ELSE [valid |-> TRUE, error |-> Undefined, status |-> 200,
          userId |-> tokens[authHeader[2]].userId, tokens |-> tokens]

\* verifyAccessToken(authHeader) at time t: its result and the tokens map
\* it leaves
verifyAccessToken(authHeader, t) ==
    IF ~startsWithBearer(authHeader)
    THEN [valid |-> FALSE, error |-> JStr("Missing or invalid authorization header"),
          status |-> 401, userId |-> Undefined, tokens |-> tokens]
    ELSE IF authHeader[2] \notin DOMAIN tokens
    THEN [valid |-> FALSE, error |-> JStr("Invalid or expired access token"),
          status |-> 401, userId |-> Undefined, tokens |-> tokens]
    ELSE IF tokens[authHeader[2]].expiresAt < t
    THEN [valid |-> FALSE, error |-> JStr("Access token has expired"),
          status |-> 401, userId |-> Undefined,
          tokens |-> MapDelete(tokens, authHeader[2])]
    ELSE [valid |-> TRUE, error |-> Undefined, status |-> 200,
          userId |-> tokens[authHeader[2]].userId, tokens |-> tokens]

\* A signup that looks the email up as it was sent and stores the record
\* under the lower-cased email.
expressSignupCaseSensitive(body, now) ==
    LET email    == Get(body, "email")
        password == Get(body, "password")
        name     == Get(body, "name")
    IN  IF Falsy(email) \/ Falsy(password)
        THEN ExpressReply(json(422, [detail |-> MissingFields(email, password)]))
        ELSE IF ~isValidEmail(email)
        THEN ExpressReply(InvalidEmailFormat)
        ELSE IF ~validatePassword(password).valid
        THEN ExpressReply(json(422, [detail |-> JArr(<<FieldError("password",
                                        validatePassword(password).message,
                                        "value_error.password")>>)]))
        ELSE IF email[2] \in DOMAIN users
        THEN ExpressReply(json(409, [detail |-> JStr("User with this email already exists")]))
        ELSE LET userId  == randomUUID(uuidCount + 1)
                 newUser == [user_id    |-> userId,
                             name       |-> OrElse(name, JStr(LocalPart(email[2]))),
                             email      |-> JStr(toLowerCase(email[2])),
                             created_at |-> toISOString(now)]
                 issued  == expressGenerateTokens(userId, uuidCount + 1, now,
                                                  tokens, refreshTokens)
             IN  ExpressOutcome(json(201, issued.pair @@ newUser),
                                MapSet(users, toLowerCase(email[2]), newUser),
                                issued.tokens, issued.refreshTokens, 3)

\* app.post('/api/auth/signup')
expressSignup(body, now) ==
    LET email    == Get(body, "email")
        password == Get(body, "password")
        name     == Get(body, "name")
    IN  IF Falsy(email) \/ Falsy(password)
        THEN ExpressReply(json(422, [detail |-> MissingFields(email, password)]))
        ELSE IF ~isValidEmail(email)
        THEN ExpressReply(InvalidEmailFormat)
        ELSE IF ~validatePassword(password).valid
        THEN ExpressReply(json(422, [detail |-> JArr(<<FieldError("password",
                                        validatePassword(password).message,
                                        "value_error.password")>>)]))
        ELSE IF toLowerCase(email[2]) \in DOMAIN users
        THEN ExpressReply(json(409, [detail |-> JStr("User with this email already exists")]))
        ELSE LET userId  == randomUUID(uuidCount + 1)
                 newUser == [user_id    |-> userId,
                             name       |-> OrElse(name, JStr(LocalPart(email[2]))),
                             email      |-> JStr(toLowerCase(email[2])),
                             created_at |-> toISOString(now)]
                 issued  == expressGenerateTokens(userId, uuidCount + 1, now,
                                                  tokens, refreshTokens)
             IN  ExpressOutcome(json(201, issued.pair @@ newUser),
                                MapSet(users, toLowerCase(email[2]), newUser),
                                issued.tokens, issued.refreshTokens, 3)

\* app.post('/api/auth/signin')
expressSignin(body, now) ==
    LET email    == Get(body, "email")
        password == Get(body, "password")
    IN  IF Falsy(email) \/ Falsy(password)
        THEN ExpressReply(json(422, [detail |-> MissingFields(email, password)]))
        ELSE IF ~isValidEmail(email)
        THEN ExpressReply(InvalidEmailFormat)
        ELSE IF toLowerCase(email[2]) \notin DOMAIN users
        THEN ExpressReply(json(401, [detail |-> JStr("Invalid email or password")]))
        ELSE LET user   == users[toLowerCase(email[2])]
                 issued == expressGenerateTokens(user.user_id, uuidCount, now,
                                                 tokens, refreshTokens)
             IN  ExpressOutcome(json(200, issued.pair @@ [user_id |-> user.user_id,
                                                          name    |-> user.name,
                                                          email   |-> user.email]),
                                users, issued.tokens, issued.refreshTokens, 2)

\* A refresh that issues the new pair and keeps the submitted token.
expressRefreshKeepingToken(body, now) ==
    LET refresh_token == Get(body, "refresh_token")
    IN  IF Falsy(refresh_token)
        THEN ExpressReply(json(422, [detail |-> JArr(<<FieldError("refresh_token",
                                        JStr("field required"), "value_error.missing")>>)]))
        ELSE IF ~IsString(refresh_token) \/ refresh_token[2] \notin DOMAIN refreshTokens
        THEN ExpressReply(json(401, [detail |-> JStr("Invalid or expired refresh token")]))
        ELSE LET tokenData == refreshTokens[refresh_token[2]]
                 issued    == expressGenerateTokens(tokenData.userId, uuidCount, now,
                                                    tokens, refreshTokens)
             IN  ExpressOutcome(json(200, issued.pair), users, issued.tokens,
                                issued.refreshTokens, 2)

\* app.post('/api/auth/refresh')
expressRefresh(body, now) ==
    LET refresh_token == Get(body, "refresh_token")
    IN  IF Falsy(refresh_token)
        THEN ExpressReply(json(422, [detail |-> JArr(<<FieldError("refresh_token",
                                        JStr("field required"), "value_error.missing")>>)]))
        ELSE IF ~IsString(refresh_token) \/ refresh_token[2] \notin DOMAIN refreshTokens
        THEN ExpressReply(json(401, [detail |-> JStr("Invalid or expired refresh token")]))
        ELSE IF refreshTokens[refresh_token[2]].expiresAt < now
        THEN ExpressOutcome(json(401, [detail |-> JStr("Refresh token has expired")]),
                            users, tokens, MapDelete(refreshTokens, refresh_token[2]), 0)
        ELSE LET tokenData == refreshTokens[refresh_token[2]]
                 issued    == expressGenerateTokens(tokenData.userId, uuidCount, now,
                                                    tokens, refreshTokens)
             IN  ExpressOutcome(json(200, issued.pair), users, issued.tokens,
                                MapDelete(issued.refreshTokens, refresh_token[2]), 2)

\* A /me that, as the dependency-free servers do, takes any bearer token
\* and answers with the record that signed up first.
expressMeFirstRecord(authHeader, now) ==
    LET Drawn(k) == CHOOSE n \in 1..uuidCount : randomUUID(n) = users[k].user_id
    IN  IF ~startsWithBearer(authHeader) \/ DOMAIN users = {}
        THEN ExpressReply(json(401, [detail |-> JStr("Missing or invalid authorization header")]))
        ELSE LET first == CHOOSE k \in DOMAIN users :
                              \A j \in DOMAIN users : Drawn(k) <= Drawn(j)
                 user  == users[first]
             IN  ExpressReply(json(200, [user_id    |-> user.user_id,
                                         name       |-> user.name,
                                         email      |-> user.email,
                                         created_at |-> user.created_at]))

\* app.get('/api/auth/me')
expressMe(authHeader, now) ==
    LET verification == verifyAccessToken(authHeader, now)
        owners == {k \in DOMAIN users : users[k].user_id = verification.userId}
    IN  IF ~verification.valid
        THEN ExpressOutcome(json(verification.status, [detail |-> verification.error]),
                            users, verification.tokens, refreshTokens, 0)
        ELSE IF owners = {}
        THEN ExpressReply(json(404, [detail |-> JStr("User not found")]))
        ELSE LET user == users[CHOOSE k \in owners : TRUE]
             IN  ExpressReply(json(200, [user_id    |-> user.user_id,
                                         name       |-> user.name,
                                         email      |-> user.email,
                                         created_at |-> user.created_at]))

\* A logout that drops the access token and keeps the refresh tokens.
expressLogoutAccessOnly(authHeader) ==
    IF startsWithBearer(authHeader) /\ authHeader[2] \in DOMAIN tokens
    THEN ExpressOutcome(json(200, [message |-> JStr("Successfully logged out")]),
                        users, MapDelete(tokens, authHeader[2]), refreshTokens, 0)
    ELSE ExpressReply(json(200, [message |-> JStr("Successfully logged out")]))

\* app.post('/api/auth/logout')
expressLogout(authHeader) ==
    IF startsWithBearer(authHeader) /\ authHeader[2] \in DOMAIN tokens
    THEN LET tokenData == tokens[authHeader[2]]
             kept == {r \in DOMAIN refreshTokens :
                          refreshTokens[r].userId # tokenData.userId}
         IN  ExpressOutcome(json(200, [message |-> JStr("Successfully logged out")]),
                            users, MapDelete(tokens, authHeader[2]),
                            [r \in kept |-> refreshTokens[r]], 0)
    ELSE ExpressReply(json(200, [message |-> JStr("Successfully logged out")]))

\* app.post('/api/auth/password/reset-request')
expressResetRequest(body) ==
    LET email == Get(body, "email")
    IN  IF Falsy(email)
        THEN ExpressReply(json(422, [detail |-> JArr(<<FieldError("email",
                                        JStr("field required"), "value_error.missing")>>)]))
        ELSE IF ~isValidEmail(email)
        THEN ExpressReply(InvalidEmailFormat)
        ELSE ExpressReply(json(200, [message |->
                 JStr("If the email exists, a password reset link has been sent")]))

\* app.get('/health')
expressHealth(now) ==
    ExpressReply(json(200,
        [status    |-> JStr("running"),
         timestamp |-> toISOString(now),
         stats     |-> JObj([users          |-> JNum(Cardinality(DOMAIN users)),
                             active_tokens  |-> JNum(Cardinality(DOMAIN tokens)),
                             refresh_tokens |-> JNum(Cardinality(DOMAIN refreshTokens))])]))

\* The middleware or route that answers a request: cors() answers a
\* preflight, bodyParser.json() passes a text that does not parse to the
\* error handler, then the routes in the order they are registered.
expressOperation(req) ==
    IF req.method = "OPTIONS" THEN "preflight"
    ELSE IF req.body.kind = "malformed" THEN "error"
    ELSE IF req.method = "POST" /\ pathname(req.url) = "/api/auth/signup" THEN "signup"
    ELSE IF req.method = "POST" /\ pathname(req.url) = "/api/auth/signin" THEN "signin"
    ELSE IF req.method = "POST" /\ pathname(req.url) = "/api/auth/refresh" THEN "refresh"
    ELSE IF req.method = "GET" /\ pathname(req.url) = "/api/auth/me" THEN "me"
    ELSE IF req.method = "POST" /\ pathname(req.url) = "/api/auth/logout" THEN "logout"
    ELSE IF req.method = "POST" /\ pathname(req.url) = "/api/auth/password/reset-request"
    THEN "reset"
    ELSE IF req.method = "GET" /\ pathname(req.url) = "/health" THEN "health"
    ELSE "notfound"

\* req.body as bodyParser.json() leaves it
expressBody(req) == IF req.body.kind = "json" THEN req.body.value ELSE EmptyObject

expressHandle(req, now) ==
    CASE expressOperation(req) = "preflight" ->
            ExpressReply([status  |-> 204,
                          headers |-> ("Access-Control-Allow-Origin" :> "*") @@
                                      ("Access-Control-Allow-Methods" :>
                                           "GET,HEAD,PUT,PATCH,POST,DELETE"),
                          body    |-> EmptyObject])
      [] expressOperation(req) = "error" ->
            ExpressReply(json(500, [detail |-> JStr("Internal server error")]))
      [] expressOperation(req) = "signup"  -> expressSignup(expressBody(req), now)
      [] expressOperation(req) = "signin"  -> expressSignin(expressBody(req), now)
      [] expressOperation(req) = "refresh" -> expressRefresh(expressBody(req), now)
      [] expressOperation(req) = "me"      -> expressMe(req.authorization, now)
      [] expressOperation(req) = "logout"  -> expressLogout(req.authorization)
      [] expressOperation(req) = "reset"   -> expressResetRequest(expressBody(req))
      [] expressOperation(req) = "health"  -> expressHealth(now)
      [] OTHER -> ExpressReply(json(404, [detail |-> JStr("Not found")]))

(***************************************************************************)
(* The requests sent to the Express server, and its state machine.         *)
(***************************************************************************)
EmailUpperA == JStr("A@x.io")
NotAnEmail == JStr("not-an-email")
Password9 == JStr("password1")

ExpressSignupTexts ==
    {JsonText(Credentials(EmailA, Password9, Undefined)),
     JsonText(Credentials(EmailUpperA, Password9, JStr("Alice"))),
     JsonText(Credentials(EmailB, Password9, Undefined)),
     JsonText(Credentials(EmailA, Password1, Undefined)),
     JsonText(Credentials(NotAnEmail, Password9, Undefined)),
     JsonText(Credentials(Undefined, Password9, Undefined)),
     JsonText(Credentials(EmailA, JStr(""), Undefined)),
     EmptyText}

ExpressSigninTexts ==
    {JsonText(Credentials(EmailA, Password1, Undefined)),
     JsonText(Credentials(EmailA, Password9, Undefined)),
     JsonText(Credentials(EmailUpperA, Password1, Undefined)),
     JsonText(Credentials(EmailB, Password1, Undefined)),
     JsonText(Credentials(NotAnEmail, Password1, Undefined)),
     JsonText(Credentials(JNum(42), Password1, Undefined)),
     JsonText(Credentials(EmailA, Undefined, Undefined))}

\* every token text the server may have issued so far, tracked or not
AccessTokenTexts == {"mock_access_" \o randomUUID(n)[2] : n \in 1..uuidCount}
RefreshTokenTexts == {"mock_refresh_" \o randomUUID(n)[2] : n \in 1..uuidCount}

ExpressRefreshTexts ==
    {JsonText([refresh_token |-> JStr(t)]) :
        t \in {"", "any_random_string_works"} \cup RefreshTokenTexts}
    \cup {EmptyText}

ExpressAuthHeaders ==
    {NoHeader, <<"Basic abc">>, Bearer("totally_fake_token_12345")}
    \cup {Bearer(t) : t \in AccessTokenTexts}

ExpressResetTexts ==
    {JsonText(Credentials(e, Undefined, Undefined)) : e \in {EmailA, NotAnEmail, Undefined}}

ExpressRequests ==
    {Request("POST", "/api/auth/signup", "", NoHeader, b) : b \in ExpressSignupTexts}
    \cup {Request("POST", "/api/auth/signin", "", NoHeader, b) : b \in ExpressSigninTexts}
    \cup {Request("POST", "/api/auth/signin", "?ref=google", NoHeader,
                  JsonText(Credentials(EmailA, Password1, Undefined)))}
    \cup {Request("POST", "/api/auth/refresh", "", NoHeader, b) : b \in ExpressRefreshTexts}
    \cup {Request("GET", "/api/auth/me", "", h, EmptyText) : h \in ExpressAuthHeaders}
    \cup {Request("POST", "/api/auth/logout", "", h, EmptyText) : h \in ExpressAuthHeaders}
    \cup {Request("POST", "/api/auth/password/reset-request", "", NoHeader, b) :
              b \in ExpressResetTexts}
    \cup {Request("GET", "/health", "", NoHeader, EmptyText)}
    \cup {Request("OPTIONS", "/api/auth/signup", "", NoHeader, EmptyText)}
    \cup {Request("GET", p, "", NoHeader, EmptyText) :
              p \in {"/unknown/endpoint", "/api/auth/signup"}}
    \cup {Request("POST", p, "", NoHeader, MalformedText) :
              p \in {"/api/auth/signin", "/unknown/endpoint"}}

\* The server starts with three empty Maps.
InitExpress ==
    /\ variant = "express"
    /\ db = EmptyDB
    /\ disk = NoFile
    /\ uuidCount = 0
    /\ lastResp = NoResponse
    /\ signupLog = << >>
    /\ users = NewMap
    /\ tokens = NewMap
    /\ refreshTokens = NewMap
    /\ pending = << >>

\* The values the clock may read, in seconds: the start, the last second
\* of an access token issued at the start, and the second after it.
ExpressTimes(op) ==
    IF op \in {"signup", "signin", "refresh", "me", "health"}
    THEN {0, AccessTokenSeconds, AccessTokenSeconds + 1}
    ELSE {0}

\* One request handled by the Express server from its arrival to its
\* response.
ExpressServe(req) ==
    \E now \in ExpressTimes(expressOperation(req)) :
    \E out \in {expressHandle(req, now)} :
        /\ uuidCount + out.uuids <= MaxExpressUuid
        /\ users' = out.users
        /\ tokens' = out.tokens
        /\ refreshTokens' = out.refreshTokens
        /\ uuidCount' = uuidCount + out.uuids
        /\ lastResp' = [req |-> req, op |-> expressOperation(req)] @@ out.resp
        /\ UNCHANGED <<variant, db, disk, signupLog, pending>>

ExpressSignup ==
    \E req \in ExpressRequests : expressOperation(req) = "signup" /\ ExpressServe(req)

ExpressSignin ==
    \E req \in ExpressRequests : expressOperation(req) = "signin" /\ ExpressServe(req)

ExpressRefresh ==
    \E req \in ExpressRequests : expressOperation(req) = "refresh" /\ ExpressServe(req)

ExpressMe ==
    \E req \in ExpressRequests : expressOperation(req) = "me" /\ ExpressServe(req)

ExpressLogout ==
    \E req \in ExpressRequests : expressOperation(req) = "logout" /\ ExpressServe(req)

ExpressResetRequest ==
    \E req \in ExpressRequests : expressOperation(req) = "reset" /\ ExpressServe(req)

ExpressHealth ==
    \E req \in ExpressRequests : expressOperation(req) = "health" /\ ExpressServe(req)

ExpressPreflight ==
    \E req \in ExpressRequests : expressOperation(req) = "preflight" /\ ExpressServe(req)

ExpressNotFound ==
    \E req \in ExpressRequests : expressOperation(req) = "notfound" /\ ExpressServe(req)

ExpressError ==
    \E req \in ExpressRequests : expressOperation(req) = "error" /\ ExpressServe(req)

\* A restart after which the tokens are still tracked and the records are
\* gone.
ExpressRestartKeepingTokens ==
    /\ users' = NewMap
    /\ lastResp' = NoResponse
    /\ UNCHANGED <<variant, db, disk, uuidCount, signupLog, pending, tokens, refreshTokens>>

\* The process stops and starts again: the three Maps are new.
ExpressRestart ==
    /\ users' = NewMap
    /\ tokens' = NewMap
    /\ refreshTokens' = NewMap
    /\ lastResp' = NoResponse
    /\ UNCHANGED <<variant, db, disk, uuidCount, signupLog, pending>>

NextExpress ==
    \/ ExpressSignup
    \/ ExpressSignin
    \/ ExpressRefresh
    \/ ExpressMe
    \/ ExpressLogout
    \/ ExpressResetRequest
    \/ ExpressHealth
    \/ ExpressPreflight
    \/ ExpressNotFound
    \/ ExpressError
    \/ ExpressRestart

SpecExpress == InitExpress /\ [][NextExpress]_vars

(***************************************************************************)
(* The Express server over the lifetime of its tokens: the clock reads the *)
(* start, the last second of an access token issued at the start and the   *)
(* second after it, and the same two seconds for a refresh token. One user *)
(* signs up; the tokens the server issued are sent to /me and to refresh.  *)
(***************************************************************************)
MaxExpiryUuid == 5

ExpiryTimes ==
    {0, AccessTokenSeconds, AccessTokenSeconds + 1,
     RefreshTokenSeconds, RefreshTokenSeconds + 1}

ExpiryRequests ==
    {Request("POST", "/api/auth/signup", "", NoHeader,
             JsonText(Credentials(EmailA, Password9, Undefined)))}
    \cup {Request("GET", "/api/auth/me", "", Bearer(t), EmptyText) :
             t \in AccessTokenTexts}
    \cup {Request("POST", "/api/auth/refresh", "", NoHeader,
                  JsonText([refresh_token |-> JStr(t)])) : t \in RefreshTokenTexts}

\* One request handled at the time `now`, which the answer keeps as `at`.
ExpiryServe(req) ==
    \E now \in ExpiryTimes :
    \E out \in {expressHandle(req, now)} :
        /\ uuidCount + out.uuids <= MaxExpiryUuid
        /\ users' = out.users
        /\ tokens' = out.tokens
        /\ refreshTokens' = out.refreshTokens
        /\ uuidCount' = uuidCount + out.uuids
        /\ lastResp' = [req |-> req, op |-> expressOperation(req), at |-> now] @@ out.resp
        /\ UNCHANGED <<variant, db, disk, signupLog, pending>>

ExpirySignup ==
    \E req \in ExpiryRequests : expressOperation(req) = "signup" /\ ExpiryServe(req)

ExpiryMe ==
    \E req \in ExpiryRequests : expressOperation(req) = "me" /\ ExpiryServe(req)

ExpiryRefresh ==
    \E req \in ExpiryRequests : expressOperation(req) = "refresh" /\ ExpiryServe(req)

NextExpiry ==
    \/ ExpirySignup
    \/ ExpiryMe
    \/ ExpiryRefresh

SpecExpiry == InitExpress /\ [][NextExpiry]_vars

(***************************************************************************)
(* The dependency-free servers on storage that may fail. writeFileSync     *)
(* opens the file for writing, which empties it, and then writes the text: *)
(* it may throw before the open (the file is left as it was) or after it   *)
(* (the file is left truncated). readFileSync may throw as well. saveDB    *)
(* and loadDB catch and log every such error.                              *)
(***************************************************************************)
MaxStorageUuid == 8

\* fs.writeFileSync(DB_FILE, text) on the file f: the file it leaves and
\* whether it threw
writeFileSync(f, text) ==
    {[file |-> [exists |-> TRUE, text |-> text], threw |-> FALSE],
     [file |-> f,                                threw |-> TRUE],
     [file |-> TruncatedFile,                    threw |-> TRUE]}

\* saveDB() on the file f: the files it may leave; nothing is rethrown
saveDBOutcomes(d, f) == {w.file : w \in writeFileSync(f, JSONstringify(d))}

\* loadDB() on the file f: readFileSync may throw, and the save of the
\* empty collection may fail
loadDBOutcomes(f) ==
    IF f.exists
    THEN {loadDB(f), [db |-> EmptyDB, disk |-> f]}
    ELSE {[db |-> EmptyDB, disk |-> w] : w \in saveDBOutcomes(EmptyDB, f)}

\* the requests sent to a server on such storage: signups and signins for
\* two emails, and one request or two of every other kind
StorageRequests ==
    {Request("POST", "/api/auth/signup", "", NoHeader, JsonText(c)) :
        c \in {Credentials(EmailA, Password1, Undefined),
               Credentials(EmailB, Password1, JStr("Alice")),
               Credentials(EmailA, Undefined, Undefined)}}
    \cup {Request("POST", "/api/auth/signin", "", NoHeader,
                  JsonText(Credentials(e, Password1, Undefined))) :
             e \in {EmailA, EmailB}}
    \cup {Request("POST", "/api/auth/refresh", "", NoHeader,
                  JsonText([refresh_token |-> JStr("any_random_string_works")]))}
    \cup {Request("GET", "/api/auth/me", "", h, EmptyText) :
             h \in {NoHeader, Bearer("totally_fake_token_12345")}}
    \cup HealthRequests
    \cup {Request("OPTIONS", "/api/auth/signup", "", NoHeader, EmptyText),
          Request("GET", "/unknown/endpoint", "", NoHeader, EmptyText)}

InitStorage ==
    /\ variant \in {"server", "standalone"}
    /\ \E l \in loadDBOutcomes(NoFile) : db = l.db /\ disk = l.disk
    /\ uuidCount = 0
    /\ lastResp = NoResponse
    /\ signupLog = << >>
    /\ users = NewMap
    /\ tokens = NewMap
    /\ refreshTokens = NewMap
    /\ pending = << >>

\* One request handled from its arrival to its response. A handler that
\* pushed a record called saveDB(); the log keeps whether the write went
\* through.
StorageServe(req) ==
    \E now \in Times(req) :
    \E out \in {handleRequest(req, now)} :
    \E f \in IF out.db # db THEN saveDBOutcomes(out.db, disk) ELSE {disk} :
        /\ uuidCount + out.uuids <= MaxStorageUuid
        /\ db' = out.db
        /\ disk' = f
        /\ uuidCount' = uuidCount + out.uuids
        /\ lastResp' = [req |-> req, op |-> Operation(req)] @@ out.resp
        /\ signupLog' =
              IF Operation(req) = "signup" /\ out.resp.status = 200
              THEN Append(signupLog, [email   |-> out.resp.body.email,
                                      user_id |-> out.resp.body.user_id,
                                      name    |-> out.resp.body.name,
                                      live    |-> TRUE,
                                      written |-> f = out.disk])
              ELSE signupLog
        /\ UNCHANGED <<variant, express, pending>>

StorageSignup ==
    \E req \in StorageRequests :
        Operation(req) = "signup" /\ StorageServe(req)

StorageSignin ==
    \E req \in StorageRequests :
        Operation(req) = "signin" /\ StorageServe(req)

StorageRefresh ==
    \E req \in StorageRequests :
        Operation(req) = "refresh" /\ StorageServe(req)

StorageMe ==
    \E req \in StorageRequests :
        Operation(req) = "me" /\ StorageServe(req)

StorageHealth ==
    \E req \in StorageRequests :
        Operation(req) = "health" /\ StorageServe(req)

StoragePreflight ==
    \E req \in StorageRequests :
        Operation(req) = "preflight" /\ StorageServe(req)

StorageNotFound ==
    \E req \in StorageRequests :
        Operation(req) = "notfound" /\ StorageServe(req)

\* The process stops and starts again on the file as the writes left it.
StorageRestart ==
    /\ \E l \in loadDBOutcomes(disk) : db' = l.db /\ disk' = l.disk
    /\ lastResp' = NoResponse
    /\ signupLog' = [i \in DOMAIN signupLog |-> [signupLog[i] EXCEPT !.live = FALSE]]
    /\ UNCHANGED <<variant, uuidCount, express, pending>>

NextStorage ==
    \/ StorageSignup
    \/ StorageSignin
    \/ StorageRefresh
    \/ StorageMe
    \/ StorageHealth
    \/ StoragePreflight
    \/ StorageNotFound
    \/ StorageRestart

SpecStorage == InitStorage /\ [][NextStorage]_vars

(***************************************************************************)
(* The dependency-free servers started on a snapshot file they did not     *)
(* write: no file, a document with no record or one record, the object {}, *)
(* a text JSON.parse rejects, and the text `null`.                         *)
(***************************************************************************)
MaxSnapshotUuid == 6

\* a record as an earlier run of the standalone server may have saved it
ForeignRecord ==
    [user_id |-> JStr("uuid-0"), name |-> JStr("Zed"), email |-> EmailB]

SnapshotFiles ==
    {NoFile,
     saveDB(EmptyDB),
     saveDB([users |-> <<ForeignRecord>>]),
     [exists |-> TRUE, text |-> << >>],
     TruncatedFile,
     NullFile}

SnapshotRequests ==
    {Request("POST", "/api/auth/signup", "", NoHeader, JsonText(c)) :
        c \in {Credentials(EmailA, Password1, Undefined),
               Credentials(EmailA, Undefined, Undefined)}}
    \cup {Request("POST", "/api/auth/signin", "", NoHeader,
                  JsonText(Credentials(e, Password1, Undefined))) :
             e \in {EmailA, EmailB}}
    \cup {Request("GET", "/api/auth/me", "", h, EmptyText) :
             h \in {NoHeader, Bearer("totally_fake_token_12345")}}

\* loadDB() runs once, on the file it finds, before the server listens.
InitSnapshot ==
    /\ variant \in {"server", "standalone"}
    /\ \E f \in SnapshotFiles : db = loadDB(f).db /\ disk = loadDB(f).disk
    /\ uuidCount = 0
    /\ lastResp = NoResponse
    /\ signupLog = << >>
    /\ users = NewMap
    /\ tokens = NewMap
    /\ refreshTokens = NewMap
    /\ pending = << >>

SnapshotServe(req) ==
    \E now \in Times(req) :
    \E out \in {handleRequest(req, now)} :
        /\ uuidCount + out.uuids <= MaxSnapshotUuid
        /\ db' = out.db
        /\ disk' = out.disk
        /\ uuidCount' = uuidCount + out.uuids
        /\ lastResp' = [req |-> req, op |-> Operation(req)] @@ out.resp
        /\ signupLog' =
              IF Operation(req) = "signup" /\ out.resp.status = 200
              THEN Append(signupLog, [email   |-> out.resp.body.email,
                                      user_id |-> out.resp.body.user_id,
                                      name    |-> out.resp.body.name,
                                      live    |-> TRUE])
              ELSE signupLog
        /\ UNCHANGED <<variant, express, pending>>

SnapshotSignup ==
    \E req \in SnapshotRequests : Operation(req) = "signup" /\ SnapshotServe(req)

SnapshotSignin ==
    \E req \in SnapshotRequests : Operation(req) = "signin" /\ SnapshotServe(req)

SnapshotMe ==
    \E req \in SnapshotRequests : Operation(req) = "me" /\ SnapshotServe(req)

\* The process stops and starts again on the file as it is.
SnapshotRestart ==
    /\ db' = loadDB(disk).db
    /\ disk' = loadDB(disk).disk
    /\ lastResp' = NoResponse
    /\ signupLog' = [i \in DOMAIN signupLog |-> [signupLog[i] EXCEPT !.live = FALSE]]
    /\ UNCHANGED <<variant, uuidCount, express, pending>>

NextSnapshot ==
    \/ SnapshotSignup
    \/ SnapshotSignin
    \/ SnapshotMe
    \/ SnapshotRestart

SpecSnapshot == InitSnapshot /\ [][NextSnapshot]_vars

(***************************************************************************)
(* The dependency-free servers on request targets that are not URLs.       *)
(* server.js builds `new URL(req.url, baseURL)` as the first statements of *)
(* handleRequest, before the OPTIONS test and outside its try block: for a *)
(* target such as "//" the constructor throws, the promise of the async    *)
(* handler is rejected and nobody handles the rejection. No response is    *)
(* written; depending on the Node.js version the process goes on (the      *)
(* rejection is only reported) or exits. The standalone server compares    *)
(* req.url as text and parses nothing.                                     *)
(***************************************************************************)
MaxTargetUuid == 6

\* new URL(url, baseURL) throws ERR_INVALID_URL
InvalidURL(url) == url.path = "//"

TargetOperation(req) ==
    IF variant = "server" /\ InvalidURL(req.url) THEN "unanswered"
    ELSE Operation(req)

TargetRequests ==
    StorageRequests
    \cup {Request("POST", "/api/auth/signup", "", NoHeader,
                  JsonText(Credentials(JNum(42), Password1, Undefined)))}
    \cup {Request(m, "//", "", NoHeader, EmptyText) : m \in {"GET", "OPTIONS"}}

\* One request whose target is a URL, handled from its arrival to its
\* response by a process that runs.
TargetServe(req) ==
    \E now \in Times(req) :
    \E out \in {handleRequest(req, now)} :
        /\ lastResp.op # "exited"
        /\ uuidCount + out.uuids <= MaxTargetUuid
        /\ db' = out.db
        /\ disk' = out.disk
        /\ uuidCount' = uuidCount + out.uuids
        /\ lastResp' = [req |-> req, op |-> Operation(req)] @@ out.resp
        /\ signupLog' =
              IF Operation(req) = "signup" /\ out.resp.status = 200
              THEN Append(signupLog, [email   |-> out.resp.body.email,
                                      user_id |-> out.resp.body.user_id,
                                      name    |-> out.resp.body.name,
                                      live    |-> TRUE])
              ELSE signupLog
        /\ UNCHANGED <<variant, express, pending>>

TargetSignup ==
    \E req \in TargetRequests :
        TargetOperation(req) = "signup" /\ TargetServe(req)

TargetSignin ==
    \E req \in TargetRequests :
        TargetOperation(req) = "signin" /\ TargetServe(req)

TargetRefresh ==
    \E req \in TargetRequests :
        TargetOperation(req) = "refresh" /\ TargetServe(req)

TargetMe ==
    \E req \in TargetRequests :
        TargetOperation(req) = "me" /\ TargetServe(req)

TargetHealth ==
    \E req \in TargetRequests :
        TargetOperation(req) = "health" /\ TargetServe(req)

TargetPreflight ==
    \E req \in TargetRequests :
        TargetOperation(req) = "preflight" /\ TargetServe(req)

TargetNotFound ==
    \E req \in TargetRequests :
        TargetOperation(req) = "notfound" /\ TargetServe(req)

\* server.js, a target that is not a URL: handleRequest throws at its
\* second statement. Nothing is written to the connection and nothing of
\* the state changes; the process goes on or exits.
TargetUnanswered ==
    \E req \in TargetRequests :
    \E fate \in {"unanswered", "exited"} :
        /\ TargetOperation(req) = "unanswered"
        /\ lastResp.op # "exited"
        /\ lastResp' = [req |-> req, op |-> fate, status |-> 0,
                        headers |-> << >>, body |-> EmptyObject]
        /\ UNCHANGED <<variant, db, disk, uuidCount, signupLog, express, pending>>

\* The process stops, or has exited, and starts again.
TargetRestart ==
    /\ db' = loadDB(disk).db
    /\ disk' = loadDB(disk).disk
    /\ lastResp' = NoResponse
    /\ signupLog' = [i \in DOMAIN signupLog |-> [signupLog[i] EXCEPT !.live = FALSE]]
    /\ UNCHANGED <<variant, uuidCount, express, pending>>

NextTarget ==
    \/ TargetSignup
    \/ TargetSignin
    \/ TargetRefresh
    \/ TargetMe
    \/ TargetHealth
    \/ TargetPreflight
    \/ TargetNotFound
    \/ TargetUnanswered
    \/ TargetRestart

SpecTarget == Init /\ [][NextTarget]_vars

(***************************************************************************)
(* The dependency-free servers with requests in flight together. The       *)
(* handler is an async function whose only await is `await parseBody(req)` *)
(* in the signup, signin and refresh routes: it runs from its first        *)
(* statement to that await when the request arrives, and from the end of   *)
(* the body to its response, without a break, when the body has been read. *)
(* Bodies end in any order. The other routes answer on arrival.            *)
(***************************************************************************)
MaxPending == 2
MaxConcurrentUuid == 6

ConcurrentRequests ==
    {Request("POST", "/api/auth/signup", "", NoHeader, JsonText(c)) :
        c \in {Credentials(EmailA, Password1, Undefined),
               Credentials(EmailB, Password1, JStr("Alice"))}}
    \cup {Request("POST", "/api/auth/signin", "", NoHeader,
                  JsonText(Credentials(EmailA, Password1, Undefined))),
          Request("GET", "/api/auth/me", "", Bearer("totally_fake_token_12345"),
                  EmptyText),
          Request("GET", "/unknown/endpoint", "", NoHeader, EmptyText)}

AwaitsBody(req) == Operation(req) \in {"signup", "signin", "refresh"}

RemoveAt(q, i) == [j \in 1..(Len(q) - 1) |-> IF j < i THEN q[j] ELSE q[j + 1]]

\* A request of a route that reads the body arrives: its handler runs to
\* `await parseBody(req)` and has touched nothing.
ConcurrentArrive ==
    \E req \in ConcurrentRequests :
        /\ AwaitsBody(req)
        /\ Len(pending) < MaxPending
        /\ pending' = Append(pending, req)
        /\ UNCHANGED <<variant, db, disk, uuidCount, lastResp, signupLog, express>>

\* A handler that acknowledges at once and writes the snapshot only when
\* no other request is in flight.
ConcurrentBodyReadDeferringSave ==
    \E i \in DOMAIN pending :
    \E now \in Times(pending[i]) :
    \E out \in {handleRequest(pending[i], now)} :
        /\ uuidCount + out.uuids <= MaxConcurrentUuid
        /\ pending' = RemoveAt(pending, i)
        /\ db' = out.db
        /\ disk' = IF pending' = << >> THEN saveDB(out.db) ELSE disk
        /\ uuidCount' = uuidCount + out.uuids
        /\ lastResp' = [req |-> pending[i], op |-> Operation(pending[i]),
                        overtook |-> i > 1] @@ out.resp
        /\ signupLog' =
              IF Operation(pending[i]) = "signup" /\ out.resp.status = 200
              THEN Append(signupLog, [email   |-> out.resp.body.email,
                                      user_id |-> out.resp.body.user_id,
                                      name    |-> out.resp.body.name,
                                      live    |-> TRUE])
              ELSE signupLog
        /\ UNCHANGED <<variant, express>>

\* The body of a request in flight ends: the rest of its handler runs to
\* the response. `overtook` tells that an older request is still in flight.
ConcurrentBodyRead ==
    \E i \in DOMAIN pending :
    \E now \in Times(pending[i]) :
    \E out \in {handleRequest(pending[i], now)} :
        /\ uuidCount + out.uuids <= MaxConcurrentUuid
        /\ pending' = RemoveAt(pending, i)
        /\ db' = out.db
        /\ disk' = out.disk
        /\ uuidCount' = uuidCount + out.uuids
        /\ lastResp' = [req |-> pending[i], op |-> Operation(pending[i]),
                        overtook |-> i > 1] @@ out.resp
        /\ signupLog' =
              IF Operation(pending[i]) = "signup" /\ out.resp.status = 200
              THEN Append(signupLog, [email   |-> out.resp.body.email,
                                      user_id |-> out.resp.body.user_id,
                                      name    |-> out.resp.body.name,
                                      live    |-> TRUE])
              ELSE signupLog
        /\ UNCHANGED <<variant, express>>

\* A request of a route that reads no body is answered on arrival.
ConcurrentImmediate ==
    \E req \in ConcurrentRequests :
        /\ ~AwaitsBody(req)
        /\ Serve(req)

\* The process stops and starts again: the requests in flight are lost.
ConcurrentRestart ==
    /\ db' = loadDB(disk).db
    /\ disk' = loadDB(disk).disk
    /\ lastResp' = NoResponse
    /\ signupLog' = [i \in DOMAIN signupLog |-> [signupLog[i] EXCEPT !.live = FALSE]]
    /\ pending' = << >>
    /\ UNCHANGED <<variant, uuidCount, express>>

NextConcurrent ==
    \/ ConcurrentArrive
    \/ ConcurrentBodyRead
    \/ ConcurrentImmediate
    \/ ConcurrentRestart

SpecConcurrent == Init /\ [][NextConcurrent]_vars

(***************************************************************************)
(* Vocabulary of the properties.                                           *)
(***************************************************************************)

\* the object a request's body parses to ({} when it does not parse)
BodyOf(req) == parseBody(req.body).value

UserIds(list) == {Get(list[i], "user_id") : i \in DOMAIN list}

\* the records a restart would load from the snapshot file
DiskUsers == loadDB(disk).db.users

Answered(op, status) == lastResp.op = op /\ lastResp.status = status

\* the step writes the 200 answer of a signup
SignupAnswered == lastResp' # lastResp /\ lastResp'.op = "signup" /\ lastResp'.status = 200

(***************************************************************************)
(* C1. Stated as in the specification: a signin answered 200 returns the   *)
(* user_id that every signup of this process for the same email returned.  *)
(* The code does not keep it: a second signup for an email appends a       *)
(* second record, and signin returns the first record's user_id.           *)
(***************************************************************************)
C1_SigninReturnsSignupUserId ==
    Answered("signin", 200) =>
        \A i \in DOMAIN signupLog :
            (signupLog[i].live /\ signupLog[i].email = Get(BodyOf(lastResp.req), "email"))
                => lastResp.body.user_id = signupLog[i].user_id

(***************************************************************************)
(* C2. Stated as in the specification: no two records of the collection    *)
(* have the same user_id, and no two have the same email. The code does    *)
(* not keep the second part: signup never looks for an existing record.    *)
(***************************************************************************)
C2_UniqueUserIdAndEmail ==
    \A i, j \in DOMAIN db.users :
        i # j => /\ db.users[i].user_id # db.users[j].user_id
                 /\ db.users[i].email # db.users[j].email

(***************************************************************************)
(* C3. A signin for an email that has no record is answered 200 with a     *)
(* user_id drawn for it, changes neither the collection nor the snapshot   *)
(* file, and the user_id it returned is in neither of them, in the state   *)
(* it leaves and after whatever step comes next; the email still has no    *)
(* record, so a second signin for it fabricates again.                     *)
(***************************************************************************)
\* the last answer is a signin's 200 for an email that has no record
GhostAnswered ==
    /\ Answered("signin", 200)
    /\ find(db.users, Get(BodyOf(lastResp.req), "email")) = 0

\* the step writes the answer of a signin whose email and password are not
\* empty and whose email has no record
GhostSigninStep ==
    /\ lastResp' # lastResp
    /\ lastResp'.op = "signin"
    /\ Truthy(Get(BodyOf(lastResp'.req), "email"))
    /\ Truthy(Get(BodyOf(lastResp'.req), "password"))
    /\ find(db.users, Get(BodyOf(lastResp'.req), "email")) = 0

C3_GhostSigninNotPersisted ==
    [][/\ GhostSigninStep =>
            /\ lastResp'.status = 200
            /\ lastResp'.body.user_id = randomUUID(uuidCount + 1)
            /\ db' = db
            /\ disk' = disk
            /\ lastResp'.body.user_id \notin UserIds(db'.users) \cup UserIds(DiskUsers')
            /\ find(db'.users, Get(BodyOf(lastResp'.req), "email")) = 0
       /\ GhostAnswered =>
            lastResp.body.user_id \notin UserIds(db'.users) \cup UserIds(DiskUsers')
      ]_vars

\* a signin for b@x.io answered while the collection holds another email's record
C3_Witness ==
    /\ GhostAnswered
    /\ Get(BodyOf(lastResp.req), "email") = EmailB
    /\ Len(db.users) = 1

(***************************************************************************)
(* C4. Signin never verifies the password: in every reachable state, two   *)
(* signins for the same email whose passwords are not empty get the same   *)
(* status and the same user_id whatever the two passwords are, and no      *)
(* record of the collection or of the snapshot has a password member or    *)
(* holds a password.                                                       *)
(***************************************************************************)
NonEmptyPasswords == {Password1, Password2}

HoldsPassword(user) ==
    \/ "password" \in DOMAIN user
    \/ \E k \in DOMAIN user : user[k] \in NonEmptyPasswords

C4_PasswordNeverVerified ==
    /\ \A e \in {EmailA, EmailB, JNum(42)} : \A now \in 0..MaxClock :
       \A p1, p2 \in NonEmptyPasswords :
            LET r1 == signin(Credentials(e, p1, Undefined), now).resp
                r2 == signin(Credentials(e, p2, Undefined), now).resp
            IN  /\ r1.status = r2.status
                /\ r1.body.user_id = r2.body.user_id
    /\ \A i \in DOMAIN db.users : ~HoldsPassword(db.users[i])
    /\ \A i \in DOMAIN DiskUsers : ~HoldsPassword(DiskUsers[i])

\* a signin with "pw2" answered with the user_id of the record that a
\* signup with "pw1" created
C4_Witness ==
    /\ Answered("signin", 200)
    /\ Get(BodyOf(lastResp.req), "password") = Password2
    /\ \E i \in DOMAIN signupLog :
            /\ signupLog[i].email = Get(BodyOf(lastResp.req), "email")
            /\ signupLog[i].user_id = lastResp.body.user_id

(***************************************************************************)
(* C5. Stated as the README states it, for the Express server: a signin    *)
(* whose email and password are not empty is answered 200 with a user_id   *)
(* and a token pair. The Express server does not do it: it answers 401 for *)
(* an email that has no record and 422 for an email its format test        *)
(* rejects.                                                                *)
(***************************************************************************)
C5_SigninAcceptsAnyCredentials ==
    LET body == IF variant = "express" THEN expressBody(lastResp.req)
                ELSE BodyOf(lastResp.req)
    IN  ( /\ lastResp.op = "signin"
          /\ Truthy(Get(body, "email"))
          /\ Truthy(Get(body, "password")) )
        => /\ lastResp.status = 200
           /\ {"user_id", "access_token", "refresh_token"} \subseteq DOMAIN lastResp.body

(***************************************************************************)
(* C6. GET /api/auth/me is answered 200 when the Authorization header      *)
(* starts with "Bearer ", whatever follows, and 401 with detail "Not       *)
(* authenticated" when the header is absent or starts otherwise.           *)
(***************************************************************************)
C6_MeAcceptsAnyBearer ==
    ( /\ lastResp.req.method = "GET"
      /\ lastResp.req.url = [path |-> "/api/auth/me", search |-> ""] )
    => IF Len(lastResp.req.authorization) > 0 /\ lastResp.req.authorization[1] = "Bearer "
       THEN lastResp.status = 200
       ELSE /\ lastResp.status = 401
            /\ lastResp.body = [detail |-> JStr("Not authenticated")]

\* a token no response ever held is accepted
C6_Witness ==
    /\ Answered("me", 200)
    /\ lastResp.req.authorization = Bearer("totally_fake_token_12345")

(***************************************************************************)
(* C7. An authorized /me answers with the user_id, email and name that the *)
(* earliest signup answered 200 returned; while no signup has succeeded it *)
(* answers with the fabricated profile "Mock Admin", whose user_id is the  *)
(* identifier just drawn, and the collection and the snapshot are empty.   *)
(***************************************************************************)
C7_MeReturnsEarliestRecord ==
    Answered("me", 200) =>
        IF signupLog # << >>
        THEN /\ lastResp.body.user_id = signupLog[1].user_id
             /\ lastResp.body.email = signupLog[1].email
             /\ lastResp.body.name = signupLog[1].name
        ELSE /\ lastResp.body.name = JStr("Mock Admin")
             /\ lastResp.body.email = JStr("admin@treeex.io")
             /\ lastResp.body.user_id = randomUUID(uuidCount)
             /\ db.users = << >>
             /\ DiskUsers = << >>

\* /me answered after two signups for different emails
C7_Witness ==
    /\ Answered("me", 200)
    /\ Len(signupLog) = 2
    /\ signupLog[1].email # signupLog[2].email
    /\ lastResp.body.email = signupLog[1].email

(***************************************************************************)
(* C8. After a signup was answered 200 and the process restarted, an       *)
(* authorized /me answers with the record of the first signup, a signin    *)
(* for that signup's email answers with the user_id the signup returned,   *)
(* and the collection the new process loaded starts with that record.      *)
(***************************************************************************)
C8_FirstRecordSurvivesRestart ==
    (signupLog # << >> /\ ~signupLog[1].live) =>
        /\ db.users # << >>
        /\ db.users[1].user_id = signupLog[1].user_id
        /\ db.users[1].email = signupLog[1].email
        /\ db.users[1].name = signupLog[1].name
        /\ Answered("me", 200) =>
                /\ lastResp.body.user_id = signupLog[1].user_id
                /\ lastResp.body.email = signupLog[1].email
                /\ lastResp.body.name = signupLog[1].name
        /\ ( /\ Answered("signin", 200)
             /\ Get(BodyOf(lastResp.req), "email") = signupLog[1].email )
           => lastResp.body.user_id = signupLog[1].user_id

\* a signin answered by the process that loaded the record from the snapshot
C8_Witness ==
    /\ signupLog # << >>
    /\ \A i \in DOMAIN signupLog : ~signupLog[i].live
    /\ Answered("signin", 200)
    /\ Get(BodyOf(lastResp.req), "email") = signupLog[1].email
    /\ lastResp.body.user_id = signupLog[1].user_id

(***************************************************************************)
(* C9. When the 200 answer of a signup is written, the snapshot file       *)
(* exists, holds exactly the records of the in-memory collection, and the  *)
(* record of the answered user_id is among them.                           *)
(***************************************************************************)
C9_SnapshotWrittenBeforeResponse ==
    Answered("signup", 200) =>
        /\ disk.exists
        /\ JSONparse(disk.text).users = db.users
        /\ \E i \in DOMAIN JSONparse(disk.text).users :
                /\ JSONparse(disk.text).users[i].user_id = lastResp.body.user_id
                /\ JSONparse(disk.text).users[i].email = lastResp.body.email

\* the answer of a second signup
C9_Witness ==
    /\ Answered("signup", 200)
    /\ Len(db.users) = 2
    /\ db.users[2].user_id = lastResp.body.user_id

(***************************************************************************)
(* C10. No step removes, reorders or alters a record of the collection or  *)
(* of the snapshot; a step that changes either of them writes the 200      *)
(* answer of a signup; and a signup answered 200 appends exactly one       *)
(* record, the one it answers with.                                        *)
(***************************************************************************)
IsPrefix(s, t) == Len(s) <= Len(t) /\ \A i \in DOMAIN s : t[i] = s[i]

C10_OnlySignupAppends ==
    [][/\ db' # db =>
            /\ SignupAnswered
            /\ Len(db'.users) = Len(db.users) + 1
            /\ IsPrefix(db.users, db'.users)
       /\ disk' # disk =>
            /\ SignupAnswered
            /\ LET before == DiskUsers
                   after  == DiskUsers'
               IN  Len(after) = Len(before) + 1 /\ IsPrefix(before, after)
       /\ SignupAnswered =>
            /\ db' # db
            /\ db'.users[Len(db'.users)].user_id = lastResp'.body.user_id
            /\ DiskUsers' = db'.users
      ]_vars

\* a signin answered, then a restart: the two records are still there
C10_Witness ==
    /\ lastResp = NoResponse
    /\ Len(db.users) = 2
    /\ \A i \in DOMAIN signupLog : ~signupLog[i].live
    /\ [i \in DOMAIN db.users |-> db.users[i].user_id]
            = [i \in DOMAIN signupLog |-> signupLog[i].user_id]

(***************************************************************************)
(* C11. A step that issues a token pair (signup, signin or refresh         *)
(* answered 200) issues an access_token and a refresh_token that differ    *)
(* from each other, from the pair of the response before, and from every   *)
(* token text the generator could have produced up to that step: the pair  *)
(* is built from identifiers drawn in the step, and the count of drawn     *)
(* identifiers never goes down, so no earlier pair can hold them.          *)
(***************************************************************************)
TokenTexts(n) ==
    {JStr(prefix \o randomUUID(i)[2]) :
        prefix \in {"mock_access_token_", "mock_refresh_token_"}, i \in 1..n}

\* the step writes a response that carries a token pair
PairIssued == lastResp' # lastResp /\ "access_token" \in DOMAIN lastResp'.body

C11_TokensNeverRepeat ==
    [][/\ uuidCount' >= uuidCount
       /\ PairIssued =>
            LET pair == {lastResp'.body.access_token, lastResp'.body.refresh_token}
            IN  /\ lastResp'.op \in {"signup", "signin", "refresh"}
                /\ lastResp'.body.access_token # lastResp'.body.refresh_token
                /\ pair \cap TokenTexts(uuidCount) = {}
                /\ pair \subseteq TokenTexts(uuidCount')
                /\ pair \cap (IssuedAccessTokens \cup IssuedRefreshTokens) = {}
      ]_vars

\* a refresh answered right after another issuance
C11_Witness ==
    /\ Answered("refresh", 200)
    /\ uuidCount >= 4
    /\ lastResp.body.access_token = JStr("mock_access_token_" \o randomUUID(uuidCount - 1)[2])

(***************************************************************************)
(* C12. A refresh whose body parses is answered 422 with detail "Refresh   *)
(* token required" when refresh_token is absent or empty, and 200 with a   *)
(* token pair when it is any other value: one the server never issued, one *)
(* it issued, or one an earlier refresh already used.                      *)
(***************************************************************************)
C12_RefreshAcceptsAnyToken ==
    (lastResp.op = "refresh" /\ parseBody(lastResp.req.body).ok) =>
        IF Falsy(Get(BodyOf(lastResp.req), "refresh_token"))
        THEN /\ lastResp.status = 422
             /\ lastResp.body = [detail |-> JStr("Refresh token required")]
        ELSE /\ lastResp.status = 200
             /\ {"access_token", "refresh_token"} \subseteq DOMAIN lastResp.body
             /\ lastResp.body.refresh_token # Get(BodyOf(lastResp.req), "refresh_token")

\* the refresh token of the signup, accepted by a second refresh
C12_Witness ==
    /\ Answered("refresh", 200)
    /\ Get(BodyOf(lastResp.req), "refresh_token") = JStr("mock_refresh_token_uuid-3")
    /\ uuidCount = 7
    /\ Len(signupLog) = 1

(***************************************************************************)
(* C13. A 200 answer of signin has exactly the members user_id,            *)
(* access_token, refresh_token and token_type, with token_type "bearer",   *)
(* so it has no name and no email, whether the email has a record or not;  *)
(* a 200 answer of signup has a name and an email.                         *)
(***************************************************************************)
C13_SigninOmitsProfile ==
    /\ Answered("signin", 200) =>
            /\ DOMAIN lastResp.body =
                   {"user_id", "access_token", "refresh_token", "token_type"}
            /\ lastResp.body.token_type = JStr("bearer")
    /\ Answered("signup", 200) =>
            /\ {"name", "email"} \subseteq DOMAIN lastResp.body
            /\ lastResp.body.email = Get(BodyOf(lastResp.req), "email")

\* a signin answered for an email whose record has a name and an email
C13_Witness ==
    /\ Answered("signin", 200)
    /\ find(db.users, Get(BodyOf(lastResp.req), "email")) # 0
    /\ "name" \in DOMAIN db.users[find(db.users, Get(BodyOf(lastResp.req), "email"))]

(***************************************************************************)
(* C14. Stated as in the specification, for server.js: a 200 answer of     *)
(* /me has user_id, email, name, created_at and last_login_at with values  *)
(* that are not empty, and email_verified and is_active true. The code     *)
(* does not keep it: signup stores last_login_at: null, nothing ever sets  *)
(* it, and /me copies the null into its answer.                            *)
(***************************************************************************)
C14_MeProfileComplete ==
    (variant = "server" /\ Answered("me", 200)) =>
        /\ \A k \in {"user_id", "email", "name", "created_at", "last_login_at"} :
                Truthy(Get(lastResp.body, k))
        /\ Get(lastResp.body, "email_verified") = JTrue
        /\ Get(lastResp.body, "is_active") = JTrue

(***************************************************************************)
(* C15. Stated as in the specification: a signup whose body lacks email or *)
(* password is answered 422 with a list that has one entry per missing     *)
(* field, each with a location that names the field and the message        *)
(* "field required". The code does not do it: server.js writes one entry   *)
(* located at "field", the standalone server one entry located at "email"  *)
(* whichever field is missing.                                             *)
(***************************************************************************)
MissingFieldsOf(body) == {f \in {"email", "password"} : Get(body, f) = Undefined}

C15_SignupNamesMissingFields ==
    ( /\ lastResp.op = "signup"
      /\ parseBody(lastResp.req.body).ok
      /\ MissingFieldsOf(BodyOf(lastResp.req)) # {} )
    => /\ lastResp.status = 422
       /\ lastResp.body.detail[1] = "array"
       /\ Len(lastResp.body.detail[2]) = Cardinality(MissingFieldsOf(BodyOf(lastResp.req)))
       /\ \A f \in MissingFieldsOf(BodyOf(lastResp.req)) :
            \E i \in DOMAIN lastResp.body.detail[2] :
                /\ lastResp.body.detail[2][i].loc = JArr(<<JStr("body"), JStr(f)>>)
                /\ lastResp.body.detail[2][i].msg = JStr("field required")

(***************************************************************************)
(* C16. Stated as in the specification: a signup whose body has both email *)
(* and password, one of them empty, is answered 400 with the string detail *)
(* "Email and password are required". server.js does it; the standalone    *)
(* server answers 422 with the list it writes for a missing field.         *)
(***************************************************************************)
C16_SignupEmptyFieldIs400 ==
    ( /\ lastResp.op = "signup"
      /\ parseBody(lastResp.req.body).ok
      /\ MissingFieldsOf(BodyOf(lastResp.req)) = {}
      /\ \/ Falsy(Get(BodyOf(lastResp.req), "email"))
         \/ Falsy(Get(BodyOf(lastResp.req), "password")) )
    => /\ lastResp.status = 400
       /\ lastResp.body = [detail |-> JStr("Email and password are required")]

(***************************************************************************)
(* C17. Stated as in the specification: a signin whose body lacks email or *)
(* password is answered 422 with the string detail "Email and password     *)
(* required" and carries no token. The standalone server does it;          *)
(* server.js answers 422 with another string, "Email and password are      *)
(* required".                                                              *)
(***************************************************************************)
C17_SigninMissingFieldIs422 ==
    ( /\ lastResp.op = "signin"
      /\ parseBody(lastResp.req.body).ok
      /\ MissingFieldsOf(BodyOf(lastResp.req)) # {} )
    => /\ lastResp.status = 422
       /\ lastResp.body = [detail |-> JStr("Email and password required")]

(***************************************************************************)
(* C18. Stated as in the specification: a signup, signin or refresh whose  *)
(* body is not JSON is answered 400 with detail "Invalid JSON", and a      *)
(* body that is empty is handled as the empty object. server.js does it;   *)
(* the standalone server handles a body that is not JSON as the empty      *)
(* object and answers 422 for the fields it then misses.                   *)
(***************************************************************************)
C18_MalformedBodyIs400 ==
    /\ ( /\ lastResp.op \in {"signup", "signin", "refresh"}
         /\ lastResp.req.body = MalformedText )
       => /\ lastResp.status = 400
          /\ lastResp.body = [detail |-> JStr("Invalid JSON")]
    /\ ( /\ lastResp.op \in {"signup", "signin", "refresh"}
         /\ lastResp.req.body = EmptyText )
       => lastResp.status = 422

(***************************************************************************)
(* C19. Stated as in the specification: a request for one of the five      *)
(* operations whose url carries a query string is routed to the operation  *)
(* and not answered 404. server.js does it; the standalone server compares *)
(* the whole url with the path and answers 404 "Not found".                *)
(***************************************************************************)
OperationRoutes ==
    {<<"GET", "/health">>, <<"POST", "/api/auth/signup">>,
     <<"POST", "/api/auth/signin">>, <<"POST", "/api/auth/refresh">>,
     <<"GET", "/api/auth/me">>}

C19_QueryStringIgnored ==
    ( /\ lastResp.req.url.search # ""
      /\ <<lastResp.req.method, lastResp.req.url.path>> \in OperationRoutes )
    => /\ lastResp.op # "notfound"
       /\ lastResp.status # 404

(***************************************************************************)
(* C20. Stated as the README states it: a signup whose email and password  *)
(* are present and not empty, of whatever JSON type, is answered 200.      *)
(* server.js does not do it for an email that is not a string and comes    *)
(* without a name: email.split throws and the answer is 500.               *)
(***************************************************************************)
C20_SignupAlwaysSucceeds ==
    ( /\ lastResp.op = "signup"
      /\ parseBody(lastResp.req.body).ok
      /\ Truthy(Get(BodyOf(lastResp.req), "email"))
      /\ Truthy(Get(BodyOf(lastResp.req), "password")) )
    => /\ lastResp.status = 200
       /\ db.users # << >>
       /\ db.users[Len(db.users)].user_id = lastResp.body.user_id

(***************************************************************************)
(* C21. Stated as in the specification: a signup whose snapshot write      *)
(* failed was answered 200, its record stays in the in-memory collection   *)
(* of the process, and a signin of that process for its email, answered    *)
(* 200, returns the user_id that signup returned.                          *)
(***************************************************************************)
C21_WriteFailureSwallowed ==
    \A i \in DOMAIN signupLog :
        (signupLog[i].live /\ ~signupLog[i].written) =>
            /\ signupLog[i].user_id \in UserIds(db.users)
            /\ (/\ Answered("signin", 200)
                /\ Get(BodyOf(lastResp.req), "email") = signupLog[i].email)
               => lastResp.body.user_id = signupLog[i].user_id

\* What holds of such a signup: its record stays in memory and a signin
\* for its email is answered 200 with the user_id of the first record of
\* that email.
WriteFailureKeepsRecord ==
    \A i \in DOMAIN signupLog :
        (signupLog[i].live /\ ~signupLog[i].written) =>
            /\ signupLog[i].user_id \in UserIds(db.users)
            /\ (/\ lastResp.op = "signin"
                /\ Get(BodyOf(lastResp.req), "email") = signupLog[i].email
                /\ Truthy(Get(BodyOf(lastResp.req), "password")))
               => /\ lastResp.status = 200
                  /\ lastResp.body.user_id =
                        db.users[find(db.users, signupLog[i].email)].user_id

(***************************************************************************)
(* C22. The process that starts without a snapshot file has an empty       *)
(* collection and has written the snapshot { users: [] } before it serves  *)
(* a request. A process that starts with a snapshot file leaves the file   *)
(* as it found it and holds exactly the records of the file, in the order  *)
(* of the file, each with the members the file gives it.                   *)
(***************************************************************************)
SnapshotRecords(f) == f.text[1][2]

HoldsMembers(user, members) ==
    /\ DOMAIN user = {members[k][1] : k \in DOMAIN members}
    /\ \A k \in DOMAIN members : user[members[k][1]] = members[k][2]

C22_StartupLoad ==
    /\ db.users = << >>
    /\ disk = [exists |-> TRUE, text |-> << <<"users", << >>>> >>]
    /\ [][(lastResp' = NoResponse /\ disk.exists) =>
             /\ disk' = disk
             /\ disk.text[1][1] = "users"
             /\ Len(db'.users) = Len(SnapshotRecords(disk))
             /\ \A i \in DOMAIN db'.users :
                    HoldsMembers(db'.users[i], SnapshotRecords(disk)[i])]_vars

\* a process has started on a snapshot of two records
C22_Witness ==
    /\ lastResp = NoResponse
    /\ Len(signupLog) = 2
    /\ Len(db.users) = 2
    /\ db.users[1] # db.users[2]

(***************************************************************************)
(* C23. Stated as in the specification: every request handled is answered, *)
(* and a request whose handling raised an exception (in the URL parsing at *)
(* the head of the handler, or in building the record of a signup) is      *)
(* answered 500 with { detail: "Internal server error" } while the         *)
(* collection stays as it was.                                             *)
(***************************************************************************)
Raises(req) ==
    /\ variant = "server"
    /\ \/ InvalidURL(req.url)
       \/ /\ Operation(req) = "signup"
          /\ parseBody(req.body).ok
          /\ Truthy(Get(BodyOf(req), "email")) /\ Truthy(Get(BodyOf(req), "password"))
          /\ ~IsString(Get(BodyOf(req), "email")) /\ Falsy(Get(BodyOf(req), "name"))

C23_ExceptionAnswered500 ==
    [][(lastResp' # lastResp /\ lastResp'.req # NoRequest) =>
          /\ lastResp'.status # 0
          /\ Raises(lastResp'.req) =>
                /\ lastResp'.status = 500
                /\ lastResp'.body = [detail |-> JStr("Internal server error")]
                /\ db' = db]_vars

\* What holds: an exception raised inside the try block of the handler is
\* answered 500 and leaves the collection as it was.
ExceptionInTryAnswered500 ==
    [][(lastResp' # lastResp /\ lastResp'.req # NoRequest
            /\ Raises(lastResp'.req) /\ ~InvalidURL(lastResp'.req.url)) =>
          /\ lastResp'.status = 500
          /\ lastResp'.body = [detail |-> JStr("Internal server error")]
          /\ db' = db]_vars

(***************************************************************************)
(* C24. A request that is not OPTIONS and whose method and path are those  *)
(* of none of the five operations is answered 404 with                     *)
(* { detail: "Not found" }, whatever its body holds (the body is not       *)
(* read), and nothing of the state changes: not the collection, not the    *)
(* snapshot, and no identifier is drawn.                                   *)
(***************************************************************************)
Unmatched(req) ==
    /\ req.method # "OPTIONS"
    /\ <<req.method, req.url.path>> \notin OperationRoutes

C24_UnmatchedIs404 ==
    [][(lastResp' # lastResp /\ lastResp'.req # NoRequest /\ Unmatched(lastResp'.req)) =>
          /\ lastResp'.status = 404
          /\ lastResp'.body = [detail |-> JStr("Not found")]
          /\ UNCHANGED <<db, disk, uuidCount, signupLog>>]_vars

\* a known path under the other method, and a body that does not parse
\* sent to an unknown path, each answered 404 by a server that holds a record
C24_Witness ==
    /\ Len(db.users) = 1
    /\ lastResp.status = 404
    /\ \/ lastResp.req.method = "GET" /\ lastResp.req.url.path = "/api/auth/signup"
       \/ lastResp.req.body = MalformedText

(***************************************************************************)
(* C25. An OPTIONS request, to whatever path and with whatever body, is    *)
(* answered 204 with an empty body and the three cross-origin headers, and *)
(* nothing else happens: no route runs, no body is parsed, nothing of the  *)
(* state changes.                                                          *)
(***************************************************************************)
C25_PreflightIsTerminal ==
    [][(lastResp' # lastResp /\ lastResp'.req.method = "OPTIONS") =>
          /\ lastResp'.status = 204
          /\ lastResp'.body = EmptyObject
          /\ lastResp'.headers = CorsHeaders
          /\ UNCHANGED <<db, disk, uuidCount, signupLog>>]_vars

\* an OPTIONS request to the signup path that carries signup credentials
C25_Witness ==
    /\ lastResp.req.method = "OPTIONS"
    /\ lastResp.req.url.path = "/api/auth/signup"
    /\ lastResp.req.body = JsonText(Credentials(EmailA, Password1, Undefined))
    /\ lastResp.status = 204

(***************************************************************************)
(* C26. Every response of a dependency-free server, whatever its status,   *)
(* carries Access-Control-Allow-Origin "*", Access-Control-Allow-Methods   *)
(* "GET, POST, OPTIONS" and Access-Control-Allow-Headers                   *)
(* "Content-Type, Authorization".                                          *)
(***************************************************************************)
HasHeader(name, value) ==
    name \in DOMAIN lastResp.headers /\ lastResp.headers[name] = value

C26_EveryResponseHasCors ==
    lastResp.req # NoRequest =>
        /\ lastResp.status \in {200, 204, 400, 401, 404, 422, 500}
        /\ HasHeader("Access-Control-Allow-Origin", "*")
        /\ HasHeader("Access-Control-Allow-Methods", "GET, POST, OPTIONS")
        /\ HasHeader("Access-Control-Allow-Headers", "Content-Type, Authorization")

\* the answer 500 of server.js
C26_Witness ==
    /\ lastResp.status = 500
    /\ HasHeader("Access-Control-Allow-Origin", "*")

(***************************************************************************)
(* C27. Stated as in the specification: a signup whose body has no name,   *)
(* or an empty one, and that is answered 200, is answered with the name    *)
(* "New User", and the record it appended, in the collection and in the    *)
(* snapshot, has that name. server.js does not do it: it takes the part of *)
(* the email before the "@".                                               *)
(***************************************************************************)
C27_DefaultNameNewUser ==
    ( /\ Answered("signup", 200)
      /\ Falsy(Get(BodyOf(lastResp.req), "name")) )
    => /\ lastResp.body.name = JStr("New User")
       /\ db.users[Len(db.users)].name = JStr("New User")
       /\ DiskUsers[Len(DiskUsers)].name = JStr("New User")

\* What holds in both servers: the answer, the record and the snapshot
\* carry one and the same name.
DefaultNameStoredAsAnswered ==
    ( /\ Answered("signup", 200)
      /\ Falsy(Get(BodyOf(lastResp.req), "name")) )
    => /\ db.users[Len(db.users)].name = lastResp.body.name
       /\ DiskUsers[Len(DiskUsers)].name = lastResp.body.name
       /\ variant = "standalone" => lastResp.body.name = JStr("New User")

(***************************************************************************)
(* C28. With requests in flight together, in every state (a state is a     *)
(* point where another handler may run): the collection holds one record   *)
(* for each signup answered 200 and no other, in the order in which the    *)
(* bodies of these signups ended, and the snapshot file holds exactly the  *)
(* records of the collection.                                              *)
(***************************************************************************)
C28_NoLostUpdate ==
    /\ Len(db.users) = Len(signupLog)
    /\ \A i \in DOMAIN signupLog : db.users[i].user_id = signupLog[i].user_id
    /\ \A i, j \in DOMAIN db.users : i # j => db.users[i].user_id # db.users[j].user_id
    /\ disk.exists
    /\ DiskUsers = db.users

\* a signup is answered while an older signup, for another email, still
\* awaits its body
C28_Witness ==
    /\ lastResp.op = "signup" /\ lastResp.status = 200
    /\ lastResp.overtook
    /\ Len(pending) = 1
    /\ Operation(pending[1]) = "signup"
    /\ Get(BodyOf(pending[1]), "email") # lastResp.body.email

(***************************************************************************)
(* C29. The Express server answers GET /api/auth/me with 200 or 401. It    *)
(* answers 200 only to a bearer token it issued and still tracks, leaves   *)
(* the token tracked, and returns the profile of the user the token was    *)
(* issued for. A header that is no bearer header, and a token it does not  *)
(* track, get 401; a tracked token gets 401 only when it has expired, and  *)
(* is then dropped.                                                        *)
(***************************************************************************)
ProfileOf(userId) ==
    LET k == CHOOSE e \in DOMAIN users : users[e].user_id = userId
    IN  [user_id    |-> users[k].user_id,
         name       |-> users[k].name,
         email      |-> users[k].email,
         created_at |-> users[k].created_at]

C29_WitnessExpired ==
    /\ lastResp.op = "me" /\ lastResp.status = 401
    /\ lastResp.body = [detail |-> JStr("Access token has expired")]

(***************************************************************************)
(* C30. The Express server accepts a refresh token at most once. A refresh *)
(* answered 200 was given a tracked token; it issues a new access token    *)
(* and a new refresh token for the user of that token and stops tracking   *)
(* the submitted token. A token that is not tracked gets 401 and changes   *)
(* nothing. Only tokens the server issued are tracked, and a token issued  *)
(* earlier that is no longer tracked is never tracked again: so a token    *)
(* used once, and a token never issued, get 401 ever after.                *)
(***************************************************************************)
Submitted(req) == Get(expressBody(req), "refresh_token")

C31_WitnessAccessExpired ==
    /\ lastResp.op = "me" /\ lastResp.status = 401
    /\ lastResp.at = 3601
    /\ lastResp.body = [detail |-> JStr("Access token has expired")]
    /\ lastResp.req.authorization[2] \notin DOMAIN tokens

\* a refresh token issued at the start is accepted in its last second
C31_WitnessRefreshLast ==
    /\ lastResp.op = "refresh" /\ lastResp.status = 200
    /\ lastResp.at = 2592000
    /\ lastResp.req.body.value.refresh_token = JStr("mock_refresh_" \o randomUUID(3)[2])
    /\ \A a \in DOMAIN tokens : tokens[a].expiresAt \in {3600, 2592000 + 3600}

\* the second after: 401, and the token is tracked no more
C31_WitnessRefreshExpired ==
    /\ lastResp.op = "refresh" /\ lastResp.status = 401
    /\ lastResp.at = 2592001
    /\ lastResp.body = [detail |-> JStr("Refresh token has expired")]
    /\ refreshTokens = NewMap

\* an expired token, dropped, is sent again and gets the 401 of a token
\* that is not tracked
C31_WitnessRejectedLater ==
    /\ lastResp.op = "me" /\ lastResp.status = 401
    /\ lastResp.body = [detail |-> JStr("Invalid or expired access token")]
    /\ lastResp.req.authorization = Bearer("mock_access_" \o randomUUID(2)[2])

(***************************************************************************)
(* C32. A dependency-free server started on any snapshot file (absent, a   *)
(* document, the object {}, unparsable text, or the text `null`) has, in   *)
(* every state, a collection db.users that is a sequence, and answers      *)
(* signup, signin and /api/auth/me with a status other than 500.           *)
(***************************************************************************)
C32_AnySnapshotTolerated ==
    /\ "users" \in DOMAIN db
    /\ lastResp.op \in {"signup", "signin", "me"} => lastResp.status # 500

\* the part of it about the answers alone
SnapshotNever500 ==
    lastResp.op \in {"signup", "signin", "me"} => lastResp.status # 500

\* on every file but `null` the collection is a sequence and no request is
\* answered 500
SnapshotToleratedUnlessNull ==
    db # NullDB =>
        /\ "users" \in DOMAIN db
        /\ DOMAIN db.users = 1..Len(db.users)
        /\ lastResp.status # 500

(***************************************************************************)
(* C33. In the Express server a signup that passes validation (a valid     *)
(* email, a valid password) for an email equal, up to letter case, to the  *)
(* email of a record returns 409 and leaves the three Maps as they were:   *)
(* no record is created and no token issued. In every state each record is *)
(* stored under its email, which is lower-cased, so no two records have    *)
(* emails equal up to letter case.                                         *)
(***************************************************************************)
LowerCasedEmails(u) == {toLowerCase(u[k].email[2]) : k \in DOMAIN u}

C33_WitnessUpperFirst ==
    /\ lastResp.op = "signup" /\ lastResp.status = 409
    /\ Get(expressBody(lastResp.req), "email") = EmailA
    /\ DOMAIN users = {"a@x.io"}
    /\ users["a@x.io"].name = JStr("Alice")
    /\ users["a@x.io"].email = EmailA

C34_WitnessTwoSessions ==
    /\ lastResp.op = "logout" /\ lastResp.status = 200
    /\ lastResp.req.authorization = Bearer("mock_access_" \o randomUUID(2)[2])
    /\ Cardinality(DOMAIN users) = 1
    /\ DOMAIN tokens = {"mock_access_" \o randomUUID(4)[2]}
    /\ refreshTokens = NewMap
    /\ uuidCount = 5

\* after the logout the refresh token of the signup, never used, is
\* answered 401
C34_WitnessRefreshRejected ==
    /\ lastResp.op = "refresh" /\ lastResp.status = 401
    /\ Submitted(lastResp.req) = JStr("mock_refresh_" \o randomUUID(3)[2])
    /\ uuidCount = 3
    /\ Cardinality(DOMAIN users) = 1
    /\ tokens = NewMap /\ refreshTokens = NewMap

\* a logout with a token that is not tracked, with tokens tracked
C34_WitnessUntracked ==
    /\ lastResp.op = "logout" /\ lastResp.status = 200
    /\ lastResp.req.authorization = Bearer("totally_fake_token_12345")
    /\ Cardinality(DOMAIN tokens) = 2
    /\ Cardinality(DOMAIN refreshTokens) = 2

(***************************************************************************)
(* C35. In every state of the Express server each tracked access token and *)
(* each tracked refresh token carries the user_id of a record in the users *)
(* map, and no GET /api/auth/me has been answered 404.                     *)
(***************************************************************************)
RecordIds == {users[k].user_id : k \in DOMAIN users}

C35_TokensBelongToRecords ==
    /\ \A a \in DOMAIN tokens : tokens[a].userId \in RecordIds
    /\ \A r \in DOMAIN refreshTokens : refreshTokens[r].userId \in RecordIds
    /\ lastResp.op = "me" => lastResp.status # 404

\* /me accepts a token of the first of two records, each with its tokens
C35_Witness ==
    /\ lastResp.op = "me" /\ lastResp.status = 200
    /\ lastResp.body.user_id = randomUUID(1)
    /\ Cardinality(RecordIds) = 2
    /\ Cardinality(DOMAIN tokens) = 2
    /\ Cardinality(DOMAIN refreshTokens) = 2
    /\ \E a \in DOMAIN tokens, r \in DOMAIN refreshTokens :
          tokens[a].userId # refreshTokens[r].userId
====
